---- MODULE Spec2Model ----
(***************************************************************************)
(* Model of crypto-front: the three market-data fetchers with their time   *)
(* bounded caches (app/api/assets), the favorites store adapter             *)
(* (app/api/favorites/route.ts) and the home list engine (app/page.tsx).   *)
(***************************************************************************)
EXTENDS Integers, Sequences, FiniteSets, Bags, TLC

(***************************************************************************)
(* Bounds of the model.                                                    *)
(***************************************************************************)
\* longest raw query string drawn for the pagination parameters
MaxRawLen == 3
\* largest integer whose decimal rendering is compared with the parser
MaxTestInt == 251
\* number of distinct provider snapshots (prices differ between snapshots)
MaxMarket == 2
\* last instant of the server clock, counted from CACHE_DURATION
ClockSlack == 2
\* number of assets the provider lists
CatalogSize == 25
\* number of favorite toggles that may be outstanding together
MaxToggles == 2
\* number of assets of the home list whose favorite control is used
MaxFavAssets == 2
\* number of throttle intervals the browser clock runs through
MaxIntervals == 2
\* number of debounce delays the browser clock runs through
MaxDelays == 2
\* number of listing handlers that may be suspended together
MaxInflight == 2

(***************************************************************************)
(* Program constants.                                                      *)
(***************************************************************************)
DEFAULT_PAGE == 1
DEFAULT_PER_PAGE == 10
MAX_PER_PAGE == 250
MAX_CACHE_ENTRIES == 10
ASSETS_CACHE_DURATION == 300000
CACHE_DURATION == 300000
perPage == 10
minLoadInterval == 500
debounceDelay == 300

VARIABLES
    now,              \* Date.now() on the server
    clock,            \* Date.now() in the browser
    pending,          \* the request a server handler is about to serve
    last,             \* the response of the handler that ran last
    assetsCache,      \* lib/cache.ts assetsCache: entries in insertion order
    detailCache,      \* app/api/assets/[id]/route.ts cache
    chartCache,       \* app/api/assets/[id]/chart/route.ts cache
    inflight,         \* listing handlers suspended at await fetch (a bag)
    favTable,         \* rows of the favorites table, oldest first
    assets, favorites, loading, loadingMore, error, favoriteLoading,
    page, hasMore,    \* app/page.tsx component state
    searchTerm, debouncedSearchTerm, sortBy, filter,
    searchTimer,      \* use-debounce: due time of the pending timeout
    lastLoadTime,     \* use-infinite-scroll lastLoadTime ref
    observed,         \* use-infinite-scroll: an observer is on the sentinel
    initialReq,       \* outstanding fetchInitialData call
    moreReq,          \* outstanding loadMoreAssets calls
    toggleReqs,       \* outstanding toggleFavorite calls (a bag)
    favPage,          \* app/favorites/page.tsx component state
    emitted           \* notifications emitted by the last step

serverVars == <<now, pending, last, assetsCache, detailCache, chartCache,
                inflight>>
storeVars == <<favTable>>
homeVars == <<clock, assets, favorites, loading, loadingMore, error, favoriteLoading,
              page, hasMore, searchTerm, debouncedSearchTerm, searchTimer,
              sortBy, filter,
              lastLoadTime, observed,
              initialReq, moreReq, toggleReqs, favPage, emitted>>
vars == <<serverVars, storeVars, homeVars>>

(***************************************************************************)
(* Strings are sequences of one-character strings.                         *)
(***************************************************************************)
Digits == <<"0", "1", "2", "3", "4", "5", "6", "7", "8", "9">>

IsDigit(c) == \E i \in 1..10 : Digits[i] = c

DigitVal(c) == (CHOOSE i \in 1..10 : Digits[i] = c) - 1

Max(a, b) == IF a >= b THEN a ELSE b

Min(a, b) == IF a <= b THEN a ELSE b

\* `${n}` for an integer n
RECURSIVE NatString(_)
NatString(n) ==
    IF n < 10 THEN <<Digits[n + 1]>>
    ELSE NatString(n \div 10) \o <<Digits[(n % 10) + 1]>>

DecimalString(n) == IF n < 0 THEN <<"-">> \o NatString(0 - n) ELSE NatString(n)

NaN == [nan |-> TRUE, val |-> 0]

Num(n) == [nan |-> FALSE, val |-> n]

RECURSIVE SkipWhite(_)
SkipWhite(s) ==
    IF s # <<>> /\ Head(s) = " " THEN SkipWhite(Tail(s)) ELSE s

\* the longest prefix of s made of decimal digits
RECURSIVE DigitPrefix(_)
DigitPrefix(s) ==
    IF s # <<>> /\ IsDigit(Head(s)) THEN <<Head(s)>> \o DigitPrefix(Tail(s))
    ELSE <<>>

RECURSIVE DigitsValue(_, _)
DigitsValue(s, acc) ==
    IF s = <<>> THEN acc ELSE DigitsValue(Tail(s), acc * 10 + DigitVal(Head(s)))

\* parseInt(s, 10)
ParseInt(s) ==
    LET t == SkipWhite(s)
        neg == t # <<>> /\ Head(t) = "-"
        signed == t # <<>> /\ Head(t) \in {"-", "+"}
        body == IF signed THEN Tail(t) ELSE t
        ds == DigitPrefix(body)
    IN  IF ds = <<>> THEN NaN
        ELSE Num(IF neg THEN 0 - DigitsValue(ds, 0) ELSE DigitsValue(ds, 0))

(***************************************************************************)
(* Query parameters: searchParams.get(name) is null or a string.           *)
(***************************************************************************)
Null == [present |-> FALSE, text |-> <<>>]

Str(s) == [present |-> TRUE, text |-> s]

\* searchParams.get(name) || fallback
OrDefault(param, fallback) ==
    IF param.present /\ param.text # <<>> THEN param.text ELSE fallback

ParsePage(param) ==
    LET parsedPage == ParseInt(OrDefault(param, DecimalString(DEFAULT_PAGE)))
    IN  IF parsedPage.nan THEN DEFAULT_PAGE ELSE Max(1, parsedPage.val)

ParsePerPageUncapped(param) ==
    LET parsedPerPage ==
            ParseInt(OrDefault(param, DecimalString(DEFAULT_PER_PAGE)))
    IN  IF parsedPerPage.nan THEN DEFAULT_PER_PAGE
        ELSE Max(1, parsedPerPage.val)

ParsePerPageDefaulting(param) ==
    LET parsedPerPage ==
            ParseInt(OrDefault(param, DecimalString(DEFAULT_PER_PAGE)))
    IN  IF parsedPerPage.nan \/ parsedPerPage.val < 1 THEN DEFAULT_PER_PAGE
        ELSE Min(MAX_PER_PAGE, parsedPerPage.val)

ParsePerPage(param) ==
    LET parsedPerPage ==
            ParseInt(OrDefault(param, DecimalString(DEFAULT_PER_PAGE)))
    IN  IF parsedPerPage.nan THEN DEFAULT_PER_PAGE
        ELSE Min(MAX_PER_PAGE, Max(1, parsedPerPage.val))

\* `${page}-${perPage}`
CacheKey(p, pp) == DecimalString(p) \o <<"-">> \o DecimalString(pp)

(***************************************************************************)
(* lib/cache.ts: a Map keeps its entries in insertion order.               *)
(***************************************************************************)
CacheHas(c, key) == \E i \in 1..Len(c) : c[i].key = key

\* ApiCache.get
CacheGet(c, key) == c[CHOOSE i \in 1..Len(c) : c[i].key = key]

CacheSetMovesToEnd(c, key, data, timestamp) ==
    LET e == [key |-> key, data |-> data, timestamp |-> timestamp]
        Other(x) == x.key # key
    IN  Append(SelectSeq(c, Other), e)

\* ApiCache.set: an existing key keeps its position
CacheSet(c, key, data, timestamp) ==
    LET e == [key |-> key, data |-> data, timestamp |-> timestamp]
    IN  IF CacheHas(c, key)
        THEN [i \in 1..Len(c) |-> IF c[i].key = key THEN e ELSE c[i]]
        ELSE Append(c, e)

\* ApiCache.delete
CacheDelete(c, key) ==
    LET Keep(e) == e.key # key IN SelectSeq(c, Keep)

IsValidInclusive(c, key, t, duration) ==
    CacheHas(c, key) /\ t - CacheGet(c, key).timestamp <= duration

\* ApiCache.isValid(ApiCache.get(key)) at Date.now() = t
IsValid(c, key, t, duration) ==
    CacheHas(c, key) /\ t - CacheGet(c, key).timestamp < duration

EvictFirstLate(c) ==
    IF Len(c) > MAX_CACHE_ENTRIES + 1 /\ c[1].key # <<>>
    THEN CacheDelete(c, c[1].key) ELSE c

\* assetsCache.keys().next().value and the delete that follows
EvictFirst(c) ==
    IF Len(c) > MAX_CACHE_ENTRIES /\ c[1].key # <<>>
    THEN CacheDelete(c, c[1].key) ELSE c

(***************************************************************************)
(* The market-data provider: what one fetch() of a handler resolves to.    *)
(***************************************************************************)
CoinId(rank) == "coin" \o ToString(rank)

\* the provider's names and symbols, recurring down the market-cap order
CoinNames == <<"Bitcoin", "Ethereum", "Tether">>

CoinSymbols == <<"btc", "eth", "usdt">>

ProviderAsset(rank, market) ==
    [id |-> CoinId(rank),
     name |-> CoinNames[((rank - 1) % Len(CoinNames)) + 1],
     symbol |-> CoinSymbols[((rank - 1) % Len(CoinSymbols)) + 1],
     current_price |-> ((rank * 7) + (market * 3)) % 11,
     price_change_percentage_24h |-> ((rank + market) % 5) - 2]

\* the provider lists either exactly two home pages or CatalogSize assets
CatalogSizes == {2 * perPage, CatalogSize}

\* coins/markets?per_page=pp&page=p in market-cap order
ProviderPage(market, total, p, pp) ==
    LET first == (p - 1) * pp
        count == Max(0, Min(pp, total - first))
    IN  [r \in 1..count |-> ProviderAsset(first + r, market)]

Latencies == {0, 1}

OkOutcomes ==
    [kind : {"ok"}, status : {200}, market : 1..MaxMarket,
     total : CatalogSizes, latency : Latencies]

FailOutcomes ==
    [kind : {"status"}, status : {429, 500}, market : {1},
     total : {CatalogSize}, latency : Latencies]
    \cup [kind : {"reject", "badjson"}, status : {0}, market : {1},
          total : {CatalogSize}, latency : Latencies]

Outcomes == OkOutcomes \cup FailOutcomes

FetchedUnchecked(out) == out.kind \in {"ok", "status"}

\* response.ok and the body parses
Fetched(out) == out.kind = "ok"

\* a handler that answered from its cache called no provider
NotCalled == [kind |-> "none", status |-> 0]

\* what the provider answered: the kind of outcome and the HTTP status
Answer(out) == [kind |-> out.kind, status |-> out.status]

(***************************************************************************)
(* app/api/assets/route.ts GET                                             *)
(***************************************************************************)
NoRequest == [route |-> "none"]

AssetsRequest(pageParam, perPageParam) ==
    [route |-> "assets", page |-> pageParam, per_page |-> perPageParam]

ListBodyNonEmpty(data, p, pp) ==
    [status |-> 200, assets |-> data, page |-> p, perPage |-> pp,
     hasMore |-> (Len(data) > 0)]

ListBody(data, p, pp) ==
    [status |-> 200, assets |-> data, page |-> p, perPage |-> pp,
     hasMore |-> (Len(data) = pp)]

ListError == [status |-> 500, error |-> "Failed to fetch crypto assets"]

AssetsHitTouching(req, c, t) ==
    LET p == ParsePage(req.page)
        pp == ParsePerPage(req.per_page)
        cacheKey == CacheKey(p, pp)
        data == CacheGet(c, cacheKey).data
    IN  [cache |-> CacheSet(c, cacheKey, data, t), now |-> t,
         calls |-> <<>>, key |-> cacheKey, upstream |-> NotCalled,
         resp |-> ListBody(data, p, pp)]

\* the handler's answer from a valid entry of the cache c at time t
AssetsHit(req, c, t) ==
    LET p == ParsePage(req.page)
        pp == ParsePerPage(req.per_page)
        cacheKey == CacheKey(p, pp)
    IN  [cache |-> c, now |-> t, calls |-> <<>>, key |-> cacheKey,
         upstream |-> NotCalled,
         resp |-> ListBody(CacheGet(c, cacheKey).data, p, pp)]

\* the handler from the resolution of its fetch to out, at time done, on
\* the cache c as it is then
AssetsAfterFetch(req, c, done, out) ==
    LET p == ParsePage(req.page)
        pp == ParsePerPage(req.per_page)
        cacheKey == CacheKey(p, pp)
        call == [api |-> "markets", page |-> p, per_page |-> pp]
        data == ProviderPage(out.market, out.total, p, pp)
    IN  IF Fetched(out)
        THEN [cache |-> EvictFirst(CacheSet(c, cacheKey, data, done)),
              now |-> done, calls |-> <<call>>, key |-> cacheKey,
              upstream |-> Answer(out), resp |-> ListBody(data, p, pp)]
        ELSE [cache |-> c, now |-> done, calls |-> <<call>>,
              key |-> cacheKey, upstream |-> Answer(out), resp |-> ListError]

\* the handler run on request req with the cache c at time t, its fetch
\* resolving to out with no other handler running meanwhile
AssetsGET(req, c, t, out) ==
    LET cacheKey == CacheKey(ParsePage(req.page), ParsePerPage(req.per_page))
    IN  IF IsValid(c, cacheKey, t, ASSETS_CACHE_DURATION)
        THEN AssetsHit(req, c, t)
        ELSE AssetsAfterFetch(req, c, t + out.latency, out)

(***************************************************************************)
(* app/api/assets/[id]/route.ts GET                                        *)
(***************************************************************************)
DetailRequest(id) == [route |-> "detail", id |-> id]

\* the link arrays of the provider's documents: a coin's document may
\* lack an array, and an array may hold empty strings anywhere
ProviderLinks(id) ==
    CASE id = "ethereum" ->
            [homepage |-> <<"", "https://home">>,
             blockchain_site |-> <<"https://scan", "">>]
      [] id = "tether" ->
            [blockchain_site |-> <<"", "">>]
      [] id = "solana" ->
            [homepage |-> <<>>]
      [] id = "dogecoin" ->
            [homepage |-> <<"", "">>,
             blockchain_site |-> <<"", "", "https://scan">>]
      [] OTHER ->
            [homepage |-> <<"https://home">>,
             blockchain_site |-> <<"", "https://scan">>]

\* the provider's coins/{id} document
ProviderDetail(id, market) ==
    [id |-> id,
     market_data |-> [current_price |-> (market * 3) % 11],
     links |-> ProviderLinks(id)]

\* data.links?.[name]: an absent array gives undefined, which the || ''
\* that follows turns into '' as it does the first element of an empty one
LinkArray(data, name) ==
    IF "links" \in DOMAIN data /\ name \in DOMAIN data.links
    THEN data.links[name] ELSE <<>>

\* x || fallback
OrElse(x, fallback, falsy) == IF x = falsy THEN fallback ELSE x

\* array.filter((site) => site)
RECURSIVE Truthy(_)
Truthy(arr) ==
    IF arr = <<>> THEN <<>>
    ELSE IF Head(arr) = "" THEN Truthy(Tail(arr))
    ELSE <<Head(arr)>> \o Truthy(Tail(arr))

\* array?.[0] || ''
FirstOrEmpty(arr) == IF arr = <<>> THEN "" ELSE arr[1]

DetailTransform(data) ==
    [id |-> data.id,
     current_price |-> OrElse(data.market_data.current_price, 0, 0),
     homepage |-> FirstOrEmpty(LinkArray(data, "homepage")),
     blockchain_site |->
        FirstOrEmpty(Truthy(LinkArray(data, "blockchain_site")))]

DetailError == [status |-> 500, error |-> "Failed to fetch asset details"]

DetailGET(req, c, t, out) ==
    LET id == req.id
        call == [api |-> "coins", id |-> id]
        assetDetail == DetailTransform(ProviderDetail(id, out.market))
        done == t + out.latency
    IN  IF IsValid(c, id, t, CACHE_DURATION)
        THEN [cache |-> c, now |-> t, calls |-> <<>>, key |-> id,
              upstream |-> NotCalled,
              resp |-> [status |-> 200, data |-> CacheGet(c, id).data]]
        ELSE IF Fetched(out)
        THEN [cache |-> CacheSet(c, id, assetDetail, done), now |-> done,
              calls |-> <<call>>, key |-> id, upstream |-> Answer(out),
              resp |-> [status |-> 200, data |-> assetDetail]]
        ELSE [cache |-> c, now |-> done, calls |-> <<call>>, key |-> id,
              upstream |-> Answer(out),
              resp |-> DetailError]

(***************************************************************************)
(* app/api/assets/[id]/chart/route.ts GET                                  *)
(***************************************************************************)
ChartRequest(id) == [route |-> "chart", id |-> id]

\* the provider's market_chart document: prices is a list of [time, price]
ProviderChart(id, market) ==
    [prices |-> << <<86400000, (market * 3) % 11>>,
                   <<172800000, (market * 5) % 11>> >>]

ChartTransform(data) ==
    [i \in 1..Len(data.prices) |->
        [timestamp |-> data.prices[i][1], price |-> data.prices[i][2]]]

ChartError == [status |-> 500, error |-> "Failed to fetch chart data"]

ChartGET(req, c, t, out) ==
    LET id == req.id
        call == [api |-> "market_chart", id |-> id]
        chartData == ChartTransform(ProviderChart(id, out.market))
        done == t + out.latency
    IN  IF IsValid(c, id, t, CACHE_DURATION)
        THEN [cache |-> c, now |-> t, calls |-> <<>>, key |-> id,
              upstream |-> NotCalled,
              resp |-> [status |-> 200, data |-> CacheGet(c, id).data]]
        ELSE IF Fetched(out)
        THEN [cache |-> CacheSet(c, id, chartData, done), now |-> done,
              calls |-> <<call>>, key |-> id, upstream |-> Answer(out),
              resp |-> [status |-> 200, data |-> chartData]]
        ELSE [cache |-> c, now |-> done, calls |-> <<call>>, key |-> id,
              upstream |-> Answer(out),
              resp |-> ChartError]

(***************************************************************************)
(* The server: the handlers of the requests it is sent.                    *)
(***************************************************************************)
\* the instants the server clock takes: around the start and around the
\* expiry of an entry stored at the start
ClockEnd == CACHE_DURATION + ClockSlack

ClockPoints ==
    {t \in {0, 1, CACHE_DURATION - 1} \cup (CACHE_DURATION..ClockEnd) :
        t <= ClockEnd}

\* what the last handler did: its request and its result
Served(req, r) ==
    [route |-> req.route, req |-> req, key |-> r.key, resp |-> r.resp,
     calls |-> r.calls, upstream |-> r.upstream]

NoneServed ==
    [route |-> "none", req |-> NoRequest, key |-> <<>>,
     resp |-> [status |-> 0],
     calls |-> <<>>, upstream |-> NotCalled]

\* time passes on the server, up to one of the given instants
Advance(points) ==
    /\ \E t \in points : t > now /\ now' = t
    /\ UNCHANGED <<pending, last, assetsCache, detailCache, chartCache,
                   inflight>>
    /\ UNCHANGED <<storeVars, homeVars>>

Tick == Advance(ClockPoints)

Arrive(req) ==
    /\ pending = NoRequest
    /\ pending' = req
    /\ UNCHANGED <<now, last, assetsCache, detailCache, chartCache, inflight>>
    /\ UNCHANGED <<storeVars, homeVars>>

ServeAssets ==
    /\ pending.route = "assets"
    /\ \E out \in Outcomes :
        LET r == AssetsGET(pending, assetsCache, now, out)
        IN  /\ r.now \in ClockPoints
            /\ assetsCache' = r.cache
            /\ now' = r.now
            /\ last' = Served(pending, r)
    /\ pending' = NoRequest
    /\ UNCHANGED <<detailCache, chartCache, inflight, storeVars, homeVars>>

Suspended(req) ==
    [req |-> req,
     key |-> CacheKey(ParsePage(req.page), ParsePerPage(req.per_page))]

AssetsEnterCoalescing ==
    /\ pending.route = "assets"
    /\ BagCardinality(inflight) < MaxInflight
    /\ LET h == Suspended(pending)
       IN  IF IsValid(assetsCache, h.key, now, ASSETS_CACHE_DURATION)
           THEN /\ last' = Served(pending, AssetsHit(pending, assetsCache, now))
                /\ inflight' = inflight
           ELSE /\ last' = last
                /\ inflight' = IF BagIn(h, inflight) THEN inflight
                               ELSE inflight (+) SetToBag({h})
    /\ pending' = NoRequest
    /\ UNCHANGED <<now, assetsCache, detailCache, chartCache>>
    /\ UNCHANGED <<storeVars, homeVars>>

\* the handler up to its await: a valid entry is answered at once, on a
\* miss the provider is called and the handler is suspended, and other
\* handlers run until the fetch resolves
AssetsEnter ==
    /\ pending.route = "assets"
    /\ BagCardinality(inflight) < MaxInflight
    /\ LET h == Suspended(pending)
       IN  IF IsValid(assetsCache, h.key, now, ASSETS_CACHE_DURATION)
           THEN /\ last' = Served(pending, AssetsHit(pending, assetsCache, now))
                /\ inflight' = inflight
           ELSE /\ last' = last
                /\ inflight' = inflight (+) SetToBag({h})
    /\ pending' = NoRequest
    /\ UNCHANGED <<now, assetsCache, detailCache, chartCache>>
    /\ UNCHANGED <<storeVars, homeVars>>

\* a suspended handler resumes when its fetch resolves to out and runs to
\* its response on the cache as it is then
AssetsResume(out) ==
    /\ \E h \in BagToSet(inflight) :
        LET r == AssetsAfterFetch(h.req, assetsCache, now, out)
        IN  /\ assetsCache' = r.cache
            /\ last' = Served(h.req, r)
            /\ inflight' = inflight (-) SetToBag({h})
    /\ UNCHANGED <<now, pending, detailCache, chartCache>>
    /\ UNCHANGED <<storeVars, homeVars>>

ServeDetail ==
    /\ pending.route = "detail"
    /\ \E out \in Outcomes :
        LET r == DetailGET(pending, detailCache, now, out)
        IN  /\ r.now \in ClockPoints
            /\ detailCache' = r.cache
            /\ now' = r.now
            /\ last' = Served(pending, r)
    /\ pending' = NoRequest
    /\ UNCHANGED <<assetsCache, chartCache, inflight, storeVars, homeVars>>

ServeChart ==
    /\ pending.route = "chart"
    /\ \E out \in Outcomes :
        LET r == ChartGET(pending, chartCache, now, out)
        IN  /\ r.now \in ClockPoints
            /\ chartCache' = r.cache
            /\ now' = r.now
            /\ last' = Served(pending, r)
    /\ pending' = NoRequest
    /\ UNCHANGED <<assetsCache, detailCache, inflight, storeVars, homeVars>>

(***************************************************************************)
(* app/api/favorites/route.ts over the favorites table                     *)
(* (asset_id text not null unique).                                        *)
(***************************************************************************)
\* !asset_id
Missing(param) == ~param.present \/ param.text = ""

HasRow(table, assetId) == \E i \in 1..Len(table) : table[i].asset_id = assetId

RowsOf(table, assetId) == {i \in 1..Len(table) : table[i].asset_id = assetId}

\* what the persistence service does with one operation
StoreOutcomes == {"ok", "error"}

UNIQUE_VIOLATION == "23505"

InsertAlways(table, assetId, sOut) ==
    IF sOut = "error" THEN [table |-> table, error |-> "08006"]
    ELSE [table |-> Append(table, [asset_id |-> assetId]), error |-> "none"]

\* supabase.from('favorites').insert({ asset_id }).select().single()
Insert(table, assetId, sOut) ==
    IF sOut = "error" THEN [table |-> table, error |-> "08006"]
    ELSE IF HasRow(table, assetId)
    THEN [table |-> table, error |-> UNIQUE_VIOLATION]
    ELSE [table |-> Append(table, [asset_id |-> assetId]), error |-> "none"]

DeleteEqAll(table, assetId, sOut) ==
    IF sOut = "error" THEN [table |-> table, error |-> "08006"]
    ELSE [table |-> <<>>, error |-> "none"]

\* supabase.from('favorites').delete().eq('asset_id', asset_id)
DeleteEq(table, assetId, sOut) ==
    LET Keep(row) == row.asset_id # assetId
    IN  IF sOut = "error" THEN [table |-> table, error |-> "08006"]
        ELSE [table |-> SelectSeq(table, Keep), error |-> "none"]

\* supabase.from('favorites').select('*').order('created_at', desc)
SelectAll(table, sOut) ==
    IF sOut = "error" THEN [rows |-> <<>>, error |-> "08006"]
    ELSE [rows |-> [i \in 1..Len(table) |-> table[Len(table) + 1 - i]],
          error |-> "none"]

\* a POST body that request.json() cannot parse
Unparsable == [present |-> FALSE, text |-> "", malformed |-> TRUE]

Parses(param) == "malformed" \notin DOMAIN param

FavoritesRequest(method, param) ==
    [route |-> "favorites", method |-> method, asset_id |-> param]

FavoritesGET(table, sOut) ==
    LET q == SelectAll(table, sOut)
    IN  IF q.error # "none"
        THEN [table |-> table, ops |-> <<"select">>,
              resp |-> [status |-> 500, error |-> "Failed to fetch favorites"]]
        ELSE [table |-> table, ops |-> <<"select">>,
              resp |-> [status |-> 200, favorites |-> q.rows]]

FavoritesPOSTStrict(param, table, sOut) ==
    LET q == Insert(table, param.text, sOut)
    IN  IF ~Parses(param)
        THEN [table |-> table, ops |-> <<>>,
              resp |-> [status |-> 500, error |-> "Failed to add favorite"]]
        ELSE IF Missing(param)
        THEN [table |-> table, ops |-> <<>>,
              resp |-> [status |-> 400, error |-> "asset_id is required"]]
        ELSE IF q.error # "none"
        THEN [table |-> q.table, ops |-> <<"insert">>,
              resp |-> [status |-> 500, error |-> "Failed to add favorite"]]
        ELSE [table |-> q.table, ops |-> <<"insert">>,
              resp |-> [status |-> 201,
                        favorite |-> [asset_id |-> param.text]]]

FavoritesPOST(param, table, sOut) ==
    LET q == Insert(table, param.text, sOut)
    IN  IF ~Parses(param)
        THEN [table |-> table, ops |-> <<>>,
              resp |-> [status |-> 500, error |-> "Failed to add favorite"]]
        ELSE IF Missing(param)
        THEN [table |-> table, ops |-> <<>>,
              resp |-> [status |-> 400, error |-> "asset_id is required"]]
        ELSE IF q.error = UNIQUE_VIOLATION
        THEN [table |-> q.table, ops |-> <<"insert">>,
              resp |-> [status |-> 200,
                        message |-> "Asset already in favorites"]]
        ELSE IF q.error # "none"
        THEN [table |-> q.table, ops |-> <<"insert">>,
              resp |-> [status |-> 500, error |-> "Failed to add favorite"]]
        ELSE [table |-> q.table, ops |-> <<"insert">>,
              resp |-> [status |-> 201,
                        favorite |-> [asset_id |-> param.text]]]

FavoritesDELETE(param, table, sOut) ==
    LET q == DeleteEq(table, param.text, sOut)
    IN  IF Missing(param)
        THEN [table |-> table, ops |-> <<>>,
              resp |-> [status |-> 400, error |-> "asset_id is required"]]
        ELSE IF q.error # "none"
        THEN [table |-> q.table, ops |-> <<"delete">>,
              resp |-> [status |-> 500,
                        error |-> "Failed to remove favorite"]]
        ELSE [table |-> q.table, ops |-> <<"delete">>,
              resp |-> [status |-> 200,
                        message |-> "Favorite removed successfully"]]

FavoritesHandler(req, table, sOut) ==
    IF req.method = "GET" THEN FavoritesGET(table, sOut)
    ELSE IF req.method = "POST" THEN FavoritesPOST(req.asset_id, table, sOut)
    ELSE FavoritesDELETE(req.asset_id, table, sOut)

ServeFavorites ==
    /\ pending.route = "favorites"
    /\ \E sOut \in StoreOutcomes :
        LET r == FavoritesHandler(pending, favTable, sOut)
        IN  /\ favTable' = r.table
            /\ last' = [route |-> "favorites", req |-> pending,
                        key |-> <<>>, resp |-> r.resp, calls |-> r.ops,
                        upstream |-> [kind |-> sOut, status |-> 0]]
    /\ pending' = NoRequest
    /\ UNCHANGED <<now, assetsCache, detailCache, chartCache, inflight, homeVars>>

(***************************************************************************)
(* app/page.tsx: the home list.  A handler runs up to its await in one     *)
(* step and the part after the await in the step that resolves it; the     *)
(* component is rendered again before the next event is delivered.         *)
(***************************************************************************)
NULL == "null"

Toast(type, message) == [type |-> type, message |-> message]

\* res.ok
Ok(resp) == resp.status >= 200 /\ resp.status <= 299

\* what a fetch() of the browser resolves to: a response of the route, or a
\* rejection when the route is not reached
Transports == {"reached", "rejected"}

Contains(seq, x) == \E i \in 1..Len(seq) : seq[i] = x

\* the derived view in the baseline state (no search, filter or sort)
Baseline == debouncedSearchTerm = "" /\ filter = "all" /\ sortBy = "default"

ListRendered == ~loading /\ error = NULL

SentinelRenderedUngated == ListRendered /\ assets # <<>> /\ hasMore

\* page.tsx 345-348: the block holding the sentinel and the manual control
SentinelRendered ==
    ListRendered /\ assets # <<>> /\ hasMore /\ Baseline

\* page.tsx 371: the manual control
ButtonRendered == SentinelRendered /\ ~loadingMore

\* use-infinite-scroll 75-92 at the commit of a step: the effect runs again
\* when handleObserver is a new function, that is when hasMore, loadingMore
\* or page changed (page.tsx 157), and then observes the sentinel if it is
\* rendered; otherwise the observer it made before stays on its element,
\* which is gone once the sentinel has been unmounted
EffectRuns ==
    observed' =
        IF <<hasMore', loadingMore', page'>> # <<hasMore, loadingMore, page>>
        THEN SentinelRendered'
        ELSE observed /\ SentinelRendered'

HomeClockPoints ==
    {(minLoadInterval * k) + d :
        k \in 1..MaxIntervals, d \in {0, minLoadInterval - 1}}

HomeTick ==
    /\ \E t \in HomeClockPoints : t > clock /\ clock' = t
    /\ emitted' = <<>> /\ favPage' = favPage
    /\ UNCHANGED <<serverVars, storeVars, assets, favorites, loading, loadingMore, error,
                   favoriteLoading, page, hasMore, searchTerm,
                   debouncedSearchTerm, searchTimer, sortBy, filter, lastLoadTime,
                   initialReq, moreReq, toggleReqs>>
    /\ EffectRuns

(***************************************************************************)
(* fetchInitialData                                                        *)
(***************************************************************************)
\* the requests of the home list are served without provider latency and
\* from one provider snapshot
HomeOutcomes == {out \in Outcomes : out.latency = 0 /\ out.market = 1}

PageRequest(p) ==
    AssetsRequest(Str(DecimalString(p)), Str(DecimalString(perPage)))

FavoriteIds(rows) == [i \in 1..Len(rows) |-> rows[i].asset_id]

\* what the second request of fetchInitialData resolved to
Rejected == [status |-> 0]

Resolved(transport, resp) == IF transport = "reached" THEN resp ELSE Rejected

BothOkAssetsOnly(assetsRes, favoritesRes) == Ok(assetsRes)

\* page.tsx 59-66: Promise.all resolved and both responses are ok
BothOk(assetsRes, favoritesRes) == Ok(assetsRes) /\ Ok(favoritesRes)

\* favoritesData.favorites?.map((f) => f.asset_id) || []
FavoritesOf(favoritesData) ==
    IF "favorites" \in DOMAIN favoritesData
    THEN FavoriteIds(favoritesData.favorites) ELSE <<>>

InitialResolve ==
    /\ clock' = clock /\ favPage' = favPage
    /\ initialReq
    /\ \E tA \in Transports, tF \in Transports,
          out \in HomeOutcomes, sOut \in StoreOutcomes :
        LET a == AssetsGET(PageRequest(1), assetsCache, now, out)
            f == FavoritesGET(favTable, sOut)
            assetsRes == Resolved(tA, a.resp)
            favoritesRes == Resolved(tF, f.resp)
        IN  /\ assetsCache' = IF tA = "reached" THEN a.cache ELSE assetsCache
            /\ last' = [favorites |-> favoritesRes] @@
                       (IF tA = "reached"
                        THEN Served(PageRequest(1), a) ELSE NoneServed)
            /\ IF BothOk(assetsRes, favoritesRes)
               THEN /\ assets' = a.resp.assets
                    /\ hasMore' = a.resp.hasMore
                    /\ favorites' = FavoritesOf(favoritesRes)
                    /\ error' = error
               ELSE /\ error' =
                        "Failed to load cryptocurrency data. Please try again."
                    /\ UNCHANGED <<assets, hasMore, favorites>>
    /\ loading' = FALSE
    /\ initialReq' = FALSE
    /\ emitted' = <<>>
    /\ UNCHANGED <<now, pending, detailCache, chartCache, inflight, storeVars>>
    /\ UNCHANGED <<loadingMore, favoriteLoading, page, searchTerm,
                   debouncedSearchTerm, searchTimer, sortBy, filter, lastLoadTime,
                   moreReq, toggleReqs>>
    /\ EffectRuns

\* ErrorState onRetry={fetchInitialData}
Retry ==
    /\ clock' = clock /\ favPage' = favPage
    /\ ~loading /\ error # NULL
    /\ loading' = TRUE
    /\ error' = NULL
    /\ initialReq' = TRUE
    /\ emitted' = <<>>
    /\ UNCHANGED <<serverVars, storeVars>>
    /\ UNCHANGED <<assets, favorites, loadingMore, favoriteLoading, page,
                   hasMore, searchTerm, debouncedSearchTerm, searchTimer, sortBy, filter,
                   lastLoadTime, moreReq, toggleReqs>>
    /\ EffectRuns

(***************************************************************************)
(* loadMoreAssets and its two callers                                      *)
(***************************************************************************)
LoadMoreRequestSkipping(nextPage, caller) ==
    [nextPage |-> nextPage + 1, caller |-> caller]

\* the call of loadMoreAssets that is waiting for its response, and the
\* caller that made it
LoadMoreRequest(nextPage, caller) == [nextPage |-> nextPage, caller |-> caller]

LoadMoreAssetsNoFlag(caller) ==
    IF loadingMore \/ ~hasMore
    THEN UNCHANGED <<loadingMore, moreReq>>
    ELSE /\ loadingMore' = loadingMore
         /\ moreReq' = Append(moreReq, LoadMoreRequest(page + 1, caller))

\* page.tsx 84-102: the part of loadMoreAssets before its await
LoadMoreAssets(caller) ==
    IF loadingMore \/ ~hasMore
    THEN UNCHANGED <<loadingMore, moreReq>>
    ELSE /\ loadingMore' = TRUE
         /\ moreReq' = Append(moreReq, LoadMoreRequest(page + 1, caller))

HandleObserverUnthrottled(isIntersecting, more, isLoading, t, lastLoad) ==
    isIntersecting /\ more /\ ~isLoading

\* use-infinite-scroll 61-67: whether handleObserver calls onLoadMore
HandleObserver(isIntersecting, more, isLoading, t, lastLoad) ==
    /\ isIntersecting /\ more /\ ~isLoading
    /\ t - lastLoad >= minLoadInterval

\* use-infinite-scroll handleObserver, called with one observed entry
ObserverFires(isIntersecting) ==
    /\ clock' = clock /\ favPage' = favPage
    /\ SentinelRendered /\ observed
    /\ IF HandleObserver(isIntersecting, hasMore, loadingMore, clock,
                         lastLoadTime)
       THEN lastLoadTime' = clock /\ LoadMoreAssets("observer")
       ELSE UNCHANGED <<lastLoadTime, loadingMore, moreReq>>
    /\ emitted' = <<>>
    /\ UNCHANGED <<serverVars, storeVars>>
    /\ UNCHANGED <<assets, favorites, loading, error, favoriteLoading, page,
                   hasMore, searchTerm, debouncedSearchTerm, searchTimer, sortBy, filter,
                   initialReq, toggleReqs>>
    /\ EffectRuns

\* the manual control's onClick
ClickLoadMore ==
    /\ clock' = clock /\ favPage' = favPage
    /\ ButtonRendered
    /\ LoadMoreAssets("button")
    /\ emitted' = <<>>
    /\ UNCHANGED <<serverVars, storeVars>>
    /\ UNCHANGED <<assets, favorites, loading, error, favoriteLoading, page,
                   hasMore, searchTerm, debouncedSearchTerm, searchTimer, sortBy, filter,
                   lastLoadTime, initialReq, toggleReqs>>
    /\ EffectRuns

RemoveAt(seq, i) == SubSeq(seq, 1, i - 1) \o SubSeq(seq, i + 1, Len(seq))

LoadMoreSettleGivesUp(req, transport, resp) ==
    IF transport = "rejected"
    THEN /\ emitted' = <<Toast("error", "Failed to load more cryptocurrencies")>>
         /\ UNCHANGED <<assets, page, hasMore>>
    ELSE IF ~Ok(resp)
    THEN /\ emitted' =
            IF resp.status = 429
            THEN <<Toast("warning", "Loading too fast, please wait a moment...")>>
            ELSE <<Toast("error", "Failed to load more cryptocurrencies")>>
         /\ hasMore' = FALSE
         /\ UNCHANGED <<assets, page>>
    ELSE IF "error" \in DOMAIN resp
    THEN /\ emitted' =
            <<Toast("warning", "Unable to load more right now, please try again")>>
         /\ UNCHANGED <<assets, page, hasMore>>
    ELSE IF resp.assets # <<>>
    THEN /\ assets' = assets \o resp.assets
         /\ page' = req.nextPage
         /\ hasMore' = resp.hasMore
         /\ emitted' = <<Toast("success", "Loaded more cryptocurrencies")>>
    ELSE /\ hasMore' = FALSE
         /\ emitted' = <<Toast("info", "No more cryptocurrencies to load")>>
         /\ UNCHANGED <<assets, page>>

LoadMoreSettleNeverEnds(req, transport, resp) ==
    IF transport = "rejected"
    THEN /\ emitted' = <<Toast("error", "Failed to load more cryptocurrencies")>>
         /\ UNCHANGED <<assets, page, hasMore>>
    ELSE IF ~Ok(resp)
    THEN /\ emitted' =
            IF resp.status = 429
            THEN <<Toast("warning", "Loading too fast, please wait a moment...")>>
            ELSE <<Toast("error", "Failed to load more cryptocurrencies")>>
         /\ UNCHANGED <<assets, page, hasMore>>
    ELSE IF "error" \in DOMAIN resp
    THEN /\ emitted' =
            <<Toast("warning", "Unable to load more right now, please try again")>>
         /\ UNCHANGED <<assets, page, hasMore>>
    ELSE IF resp.assets # <<>>
    THEN /\ assets' = assets \o resp.assets
         /\ page' = req.nextPage
         /\ hasMore' = resp.hasMore
         /\ emitted' = <<Toast("success", "Loaded more cryptocurrencies")>>
    ELSE /\ emitted' = <<Toast("info", "No more cryptocurrencies to load")>>
         /\ UNCHANGED <<assets, page, hasMore>>

\* page.tsx 102-157: the part of loadMoreAssets after its await, for the
\* response resp (or a rejected fetch)
LoadMoreSettle(req, transport, resp) ==
    IF transport = "rejected"
    THEN /\ emitted' = <<Toast("error", "Failed to load more cryptocurrencies")>>
         /\ UNCHANGED <<assets, page, hasMore>>
    ELSE IF ~Ok(resp)
    THEN /\ emitted' =
            IF resp.status = 429
            THEN <<Toast("warning", "Loading too fast, please wait a moment...")>>
            ELSE <<Toast("error", "Failed to load more cryptocurrencies")>>
         /\ UNCHANGED <<assets, page, hasMore>>
    ELSE IF "error" \in DOMAIN resp
    THEN /\ emitted' =
            <<Toast("warning", "Unable to load more right now, please try again")>>
         /\ UNCHANGED <<assets, page, hasMore>>
    ELSE IF resp.assets # <<>>
    THEN /\ assets' = assets \o resp.assets
         /\ page' = req.nextPage
         /\ hasMore' = resp.hasMore
         /\ emitted' = <<Toast("success", "Loaded more cryptocurrencies")>>
    ELSE /\ hasMore' = FALSE
         /\ emitted' = <<Toast("info", "No more cryptocurrencies to load")>>
         /\ UNCHANGED <<assets, page>>

LoadMoreResolve ==
    /\ clock' = clock /\ favPage' = favPage
    /\ \E i \in 1..Len(moreReq), transport \in Transports,
          out \in HomeOutcomes :
        LET req == moreReq[i]
            r == AssetsGET(PageRequest(req.nextPage), assetsCache, now, out)
        IN  /\ assetsCache' =
                IF transport = "reached" THEN r.cache ELSE assetsCache
            /\ last' = IF transport = "reached"
                       THEN Served(PageRequest(req.nextPage), r)
                       ELSE NoneServed
            /\ LoadMoreSettle(req, transport, r.resp)
            /\ moreReq' = RemoveAt(moreReq, i)
    /\ loadingMore' = FALSE
    /\ UNCHANGED <<now, pending, detailCache, chartCache, inflight, storeVars>>
    /\ UNCHANGED <<favorites, loading, error, favoriteLoading, searchTerm,
                   debouncedSearchTerm, searchTimer, sortBy, filter, lastLoadTime,
                   initialReq, toggleReqs>>
    /\ EffectRuns

(***************************************************************************)
(* toggleFavorite                                                          *)
(***************************************************************************)
\* the assets whose favorite control is operated
Togglable == {CoinId(r) : r \in 1..MaxFavAssets}

\* page.tsx 333-341 and asset-card.tsx 72: the card of assetId is shown and
\* its control is not disabled
ControlEnabled(assetId) ==
    /\ ListRendered
    /\ \E i \in 1..Len(assets) : assets[i].id = assetId
    /\ favoriteLoading # assetId

ToggleRequest(assetId, isFavorite) ==
    [assetId |-> assetId, isFavorite |-> isFavorite]

\* page.tsx 168-171: the part of toggleFavorite before its await
ToggleFavorite(assetId) ==
    /\ clock' = clock /\ favPage' = favPage
    /\ ControlEnabled(assetId)
    /\ BagCardinality(toggleReqs) < MaxToggles
    /\ favoriteLoading' = assetId
    /\ toggleReqs' = toggleReqs (+)
        SetToBag({ToggleRequest(assetId, Contains(favorites, assetId))})
    /\ emitted' = <<>>
    /\ UNCHANGED <<serverVars, storeVars>>
    /\ UNCHANGED <<assets, favorites, loading, loadingMore, error, page,
                   hasMore, searchTerm, debouncedSearchTerm, searchTimer, sortBy, filter,
                   lastLoadTime, initialReq, moreReq>>
    /\ EffectRuns

\* prev.filter((id) => id !== assetId)
Without(seq, x) == LET Keep(y) == y # x IN SelectSeq(seq, Keep)

\* page.tsx 172-201: the part of toggleFavorite after its await
ToggleSettle(req, transport, resp) ==
    IF transport = "rejected" \/ ~Ok(resp)
    THEN /\ emitted' = <<Toast("error", "Failed to update favorites")>>
         /\ UNCHANGED favorites
    ELSE IF req.isFavorite
    THEN /\ favorites' = Without(favorites, req.assetId)
         /\ emitted' = <<Toast("success", "Removed from favorites")>>
    ELSE /\ favorites' = Append(favorites, req.assetId)
         /\ emitted' = <<Toast("success", "Added to favorites")>>

ToggleResolve ==
    /\ clock' = clock /\ favPage' = favPage
    /\ \E req \in BagToSet(toggleReqs), transport \in Transports,
          sOut \in StoreOutcomes :
        LET r == IF req.isFavorite
            THEN FavoritesDELETE(Str(req.assetId), favTable, sOut)
            ELSE FavoritesPOST(Str(req.assetId), favTable, sOut)
        IN  /\ favTable' = IF transport = "reached" THEN r.table ELSE favTable
            /\ ToggleSettle(req, transport, r.resp)
            /\ toggleReqs' = toggleReqs (-) SetToBag({req})
    /\ favoriteLoading' = NULL
    /\ UNCHANGED <<serverVars>>
    /\ UNCHANGED <<assets, loading, loadingMore, error, page, hasMore,
                   searchTerm, debouncedSearchTerm, searchTimer, sortBy, filter,
                   lastLoadTime, initialReq, moreReq>>
    /\ EffectRuns

\* an outstanding toggle request the route has not handled yet
Unserved(req) == "resp" \notin DOMAIN req

\* the favorites route handles an outstanding toggle request; its response
\* is on its way to the browser, where responses may arrive in any order
ToggleServe ==
    /\ \E req \in {q \in BagToSet(toggleReqs) : Unserved(q)},
          transport \in Transports, sOut \in StoreOutcomes :
        LET r == IF req.isFavorite
            THEN FavoritesDELETE(Str(req.assetId), favTable, sOut)
            ELSE FavoritesPOST(Str(req.assetId), favTable, sOut)
        IN  /\ favTable' = IF transport = "reached" THEN r.table ELSE favTable
            /\ toggleReqs' = (toggleReqs (-) SetToBag({req})) (+)
                SetToBag({[assetId |-> req.assetId,
                           isFavorite |-> req.isFavorite,
                           transport |-> transport, resp |-> r.resp]})
    /\ UNCHANGED <<serverVars, clock, favPage, emitted>>
    /\ UNCHANGED <<assets, favorites, loading, loadingMore, error,
                   favoriteLoading, page, hasMore, searchTerm,
                   debouncedSearchTerm, searchTimer, sortBy, filter,
                   lastLoadTime, observed, initialReq, moreReq>>

\* page.tsx 172-201 for a response that has arrived
ToggleDeliver ==
    /\ clock' = clock /\ favPage' = favPage
    /\ \E req \in {q \in BagToSet(toggleReqs) : ~Unserved(q)} :
        /\ ToggleSettle(req, req.transport, req.resp)
        /\ toggleReqs' = toggleReqs (-) SetToBag({req})
    /\ favoriteLoading' = NULL
    /\ UNCHANGED <<serverVars, storeVars>>
    /\ UNCHANGED <<assets, loading, loadingMore, error, page, hasMore,
                   searchTerm, debouncedSearchTerm, searchTimer, sortBy, filter,
                   lastLoadTime, initialReq, moreReq>>
    /\ EffectRuns

(***************************************************************************)
(* The search box, the debounce hook and the sort / filter controls        *)
(***************************************************************************)
NoTimer == -1

\* what is typed into the search box
SearchTerms == {"", "eth", "ETH", "b"}

SortOptions ==
    {"default", "price-asc", "price-desc", "change-asc", "change-desc"}

FilterOptions == {"all", "gainers", "losers"}

ViewClockEnd == minLoadInterval + (MaxDelays * debounceDelay)

ViewClockPoints ==
    {minLoadInterval + (k * debounceDelay) - d : k \in 1..MaxDelays, d \in {0, 1}}

\* time passes; a timeout that is due runs before time passes on
ViewTick ==
    /\ \E t \in ViewClockPoints \cup {searchTimer} :
        /\ t > clock /\ t <= ViewClockEnd
        /\ searchTimer # NoTimer => t <= searchTimer
        /\ clock' = t
    /\ emitted' = <<>> /\ favPage' = favPage
    /\ UNCHANGED <<serverVars, storeVars, assets, favorites, loading,
                   loadingMore, error, favoriteLoading, page, hasMore,
                   searchTerm, debouncedSearchTerm, searchTimer, sortBy,
                   filter, lastLoadTime, initialReq, moreReq, toggleReqs>>
    /\ EffectRuns

SetSearchTermKeepsTimer(value) ==
    /\ clock' = clock /\ favPage' = favPage
    /\ ListRendered
    /\ value # searchTerm
    /\ searchTerm' = value
    /\ searchTimer' = IF searchTimer = NoTimer
                      THEN clock + debounceDelay ELSE searchTimer
    /\ emitted' = <<>>
    /\ UNCHANGED <<serverVars, storeVars, assets, favorites, loading,
                   loadingMore, error, favoriteLoading, page, hasMore,
                   debouncedSearchTerm, sortBy, filter, lastLoadTime,
                   initialReq, moreReq, toggleReqs>>
    /\ EffectRuns

\* SearchBar onChange={setSearchTerm}; the effect of useDebounce clears the
\* pending timeout and sets a new one for the new value
SetSearchTerm(value) ==
    /\ clock' = clock /\ favPage' = favPage
    /\ ListRendered
    /\ value # searchTerm
    /\ searchTerm' = value
    /\ searchTimer' = clock + debounceDelay
    /\ emitted' = <<>>
    /\ UNCHANGED <<serverVars, storeVars, assets, favorites, loading,
                   loadingMore, error, favoriteLoading, page, hasMore,
                   debouncedSearchTerm, sortBy, filter, lastLoadTime,
                   initialReq, moreReq, toggleReqs>>
    /\ EffectRuns

\* use-debounce 24-26: the timeout runs setDebouncedValue(value)
DebounceFires ==
    /\ clock' = clock /\ favPage' = favPage
    /\ searchTimer # NoTimer /\ clock >= searchTimer
    /\ debouncedSearchTerm' = searchTerm
    /\ searchTimer' = NoTimer
    /\ emitted' = <<>>
    /\ UNCHANGED <<serverVars, storeVars, assets, favorites, loading,
                   loadingMore, error, favoriteLoading, page, hasMore,
                   searchTerm, sortBy, filter, lastLoadTime,
                   initialReq, moreReq, toggleReqs>>
    /\ EffectRuns

\* FilterBar onSortChange={setSortBy}
SetSortBy(option) ==
    /\ clock' = clock /\ favPage' = favPage
    /\ ListRendered
    /\ option # sortBy
    /\ sortBy' = option
    /\ emitted' = <<>>
    /\ UNCHANGED <<serverVars, storeVars, assets, favorites, loading,
                   loadingMore, error, favoriteLoading, page, hasMore,
                   searchTerm, debouncedSearchTerm, searchTimer,
                   filter, lastLoadTime, initialReq, moreReq, toggleReqs>>
    /\ EffectRuns

\* FilterBar onFilterChange={setFilter}
SetFilter(option) ==
    /\ clock' = clock /\ favPage' = favPage
    /\ ListRendered
    /\ option # filter
    /\ filter' = option
    /\ emitted' = <<>>
    /\ UNCHANGED <<serverVars, storeVars, assets, favorites, loading,
                   loadingMore, error, favoriteLoading, page, hasMore,
                   searchTerm, debouncedSearchTerm, searchTimer,
                   sortBy, lastLoadTime, initialReq, moreReq, toggleReqs>>
    /\ EffectRuns

(***************************************************************************)
(* filteredAssets: the derived view of app/page.tsx                        *)
(***************************************************************************)
UpperCase == <<"A", "B", "C", "D", "E", "F", "G", "H", "I", "J", "K", "L",
               "M", "N", "O", "P", "Q", "R", "S", "T", "U", "V", "W", "X",
               "Y", "Z">>

LowerCase == <<"a", "b", "c", "d", "e", "f", "g", "h", "i", "j", "k", "l",
               "m", "n", "o", "p", "q", "r", "s", "t", "u", "v", "w", "x",
               "y", "z">>

\* the characters of the strings the view works on
Chars(str) ==
    CASE str = "" -> <<>>
      [] str = "eth" -> <<"e", "t", "h">>
      [] str = "ETH" -> <<"E", "T", "H">>
      [] str = "b" -> <<"b">>
      [] str = "btc" -> <<"b", "t", "c">>
      [] str = "usdt" -> <<"u", "s", "d", "t">>
      [] str = "Bitcoin" -> <<"B", "i", "t", "c", "o", "i", "n">>
      [] str = "Ethereum" -> <<"E", "t", "h", "e", "r", "e", "u", "m">>
      [] str = "Tether" -> <<"T", "e", "t", "h", "e", "r">>

\* String.prototype.toLowerCase
ToLowerCase(chars) ==
    [i \in 1..Len(chars) |->
        IF \E k \in 1..26 : UpperCase[k] = chars[i]
        THEN LowerCase[CHOOSE k \in 1..26 : UpperCase[k] = chars[i]]
        ELSE chars[i]]

\* String.prototype.includes
Includes(chars, part) ==
    \E i \in 0..(Len(chars) - Len(part)) :
        SubSeq(chars, i + 1, i + Len(part)) = part

\* page.tsx 209-216
MatchesSearch(asset, searchValue) ==
    searchValue # "" =>
        LET term == ToLowerCase(Chars(searchValue))
        IN  \/ Includes(ToLowerCase(Chars(asset.name)), term)
            \/ Includes(ToLowerCase(Chars(asset.symbol)), term)

PassesFilterStrict(asset, option) ==
    CASE option = "gainers" -> asset.price_change_percentage_24h > 0
      [] option = "losers" -> asset.price_change_percentage_24h < 0
      [] OTHER -> TRUE

\* page.tsx 218-227
PassesFilter(asset, option) ==
    CASE option = "gainers" -> asset.price_change_percentage_24h >= 0
      [] option = "losers" -> asset.price_change_percentage_24h < 0
      [] OTHER -> TRUE

CompareReversed(a, b, option) ==
    CASE option = "price-asc" -> b.current_price - a.current_price
      [] option = "price-desc" -> b.current_price - a.current_price
      [] option = "change-asc" ->
            a.price_change_percentage_24h - b.price_change_percentage_24h
      [] option = "change-desc" ->
            b.price_change_percentage_24h - a.price_change_percentage_24h
      [] OTHER -> 0

\* page.tsx 229-241: the comparators handed to Array.prototype.sort
Compare(a, b, option) ==
    CASE option = "price-asc" -> a.current_price - b.current_price
      [] option = "price-desc" -> b.current_price - a.current_price
      [] option = "change-asc" ->
            a.price_change_percentage_24h - b.price_change_percentage_24h
      [] option = "change-desc" ->
            b.price_change_percentage_24h - a.price_change_percentage_24h
      [] OTHER -> 0

\* Array.prototype.sort is stable: an element goes behind the elements
\* that precede it in the array and do not compare greater
InsertSorted(sorted, x, option) ==
    LET notGreater == {i \in 1..Len(sorted) : Compare(sorted[i], x, option) <= 0}
        k == IF notGreater = {} THEN 0
             ELSE CHOOSE i \in notGreater : \A j \in notGreater : j <= i
    IN  SubSeq(sorted, 1, k) \o <<x>> \o SubSeq(sorted, k + 1, Len(sorted))

RECURSIVE Sort(_, _)
Sort(seq, option) ==
    IF seq = <<>> THEN <<>>
    ELSE InsertSorted(Sort(SubSeq(seq, 1, Len(seq) - 1), option),
                      seq[Len(seq)], option)

\* page.tsx 205-246
FilteredAssets(loaded, searchValue, filterOption, sortOption) ==
    LET Kept(asset) == /\ MatchesSearch(asset, searchValue)
                       /\ PassesFilter(asset, filterOption)
        filtered == SelectSeq(loaded, Kept)
    IN  IF sortOption = "default" THEN filtered
        ELSE Sort(filtered, sortOption)

filteredAssets == FilteredAssets(assets, debouncedSearchTerm, filter, sortBy)

(***************************************************************************)
(* app/favorites/page.tsx: the favorites view, opened next to the home     *)
(* list                                                                    *)
(***************************************************************************)
\* favorites/page.tsx 23-26: the component state when the view is mounted
FavoritesMounted ==
    [assets |-> <<>>, loading |-> TRUE, error |-> NULL,
     favoriteLoading |-> NULL]

\* allAssets.filter((asset) => ids.includes(asset.id))
FavoriteAssets(allAssets, ids) ==
    LET IsFavorite(asset) == Contains(ids, asset.id)
    IN  SelectSeq(allAssets, IsFavorite)

FetchDataError ==
    [assets |-> <<>>, loading |-> FALSE,
     error |-> "Failed to load favorites. Please try again.",
     favoriteLoading |-> NULL]

FetchDataLoaded(shown) ==
    [assets |-> shown, loading |-> FALSE, error |-> NULL,
     favoriteLoading |-> NULL]

\* favorites/page.tsx 28-67: the view is mounted and fetchData runs: the
\* favorites request and, when there are favorites, the asset request
\* without parameters
FetchData ==
    /\ \E tF \in Transports, sOut \in StoreOutcomes :
        LET f == FavoritesGET(favTable, sOut)
            favoritesRes == Resolved(tF, f.resp)
            ids == FavoritesOf(favoritesRes)
        IN  IF ~Ok(favoritesRes)
            THEN /\ favPage' = FetchDataError
                 /\ UNCHANGED <<assetsCache, last>>
            ELSE IF ids = <<>>
            THEN /\ favPage' = FetchDataLoaded(<<>>)
                 /\ UNCHANGED <<assetsCache, last>>
            ELSE \E tA \in Transports, out \in HomeOutcomes :
                LET a == AssetsGET(AssetsRequest(Null, Null), assetsCache,
                                   now, out)
                    assetsRes == Resolved(tA, a.resp)
                IN  /\ assetsCache' =
                        IF tA = "reached" THEN a.cache ELSE assetsCache
                    /\ last' = IF tA = "reached"
                               THEN Served(AssetsRequest(Null, Null), a)
                               ELSE NoneServed
                    /\ favPage' =
                        IF Ok(assetsRes)
                        THEN FetchDataLoaded(
                                FavoriteAssets(a.resp.assets, ids))
                        ELSE FetchDataError
    /\ clock' = clock
    /\ emitted' = <<>>
    /\ UNCHANGED <<now, pending, detailCache, chartCache, inflight, storeVars>>
    /\ UNCHANGED <<assets, favorites, loading, loadingMore, error,
                   favoriteLoading, page, hasMore, searchTerm,
                   debouncedSearchTerm, searchTimer, sortBy, filter,
                   lastLoadTime, initialReq, moreReq, toggleReqs>>
    /\ observed' = observed

(***************************************************************************)
(* Specifications                                                          *)
(***************************************************************************)
\* the home list right after it is mounted: fetchInitialData is running
HomeMounted ==
    /\ clock = minLoadInterval
    /\ assets = <<>> /\ favorites = <<>>
    /\ loading = TRUE /\ loadingMore = FALSE
    /\ error = NULL /\ favoriteLoading = NULL
    /\ page = 1 /\ hasMore = TRUE
    /\ searchTerm = "" /\ debouncedSearchTerm = ""
    /\ searchTimer = clock + debounceDelay
    /\ sortBy = "default" /\ filter = "all"
    /\ lastLoadTime = 0
    /\ observed = FALSE
    /\ initialReq = TRUE /\ moreReq = <<>> /\ toggleReqs = EmptyBag
    /\ favPage = FavoritesMounted
    /\ emitted = <<>>

ServerStarted ==
    /\ pending = NoRequest /\ last = NoneServed
    /\ assetsCache = <<>> /\ detailCache = <<>> /\ chartCache = <<>>
    /\ inflight = EmptyBag

\* the home list with the routes and the favorites table behind it: the
\* initial load and the incremental loads
Init ==
    /\ now = 0
    /\ ServerStarted
    /\ favTable \in {<<>>, <<[asset_id |-> CoinId(1)]>>}
    /\ HomeMounted

Next ==
    \/ InitialResolve
    \/ Retry
    \/ \E isIntersecting \in BOOLEAN : ObserverFires(isIntersecting)
    \/ ClickLoadMore
    \/ LoadMoreResolve
    \/ HomeTick

Spec == Init /\ [][Next]_vars

\* the home list: the initial load and the favorite toggles
NextToggle ==
    \/ InitialResolve
    \/ Retry
    \/ \E assetId \in Togglable : ToggleFavorite(assetId)
    \/ ToggleResolve

SpecToggle == Init /\ [][NextToggle]_vars

\* the same, with the route's handling of a toggle request and the arrival
\* of its response as separate steps
NextAgree ==
    \/ InitialResolve
    \/ Retry
    \/ \E assetId \in Togglable : ToggleFavorite(assetId)
    \/ ToggleServe
    \/ ToggleDeliver

SpecAgree == Init /\ [][NextAgree]_vars

\* the home list after its initial load: the search box and the sort and
\* filter controls over the first page
NextView ==
    \/ InitialResolve
    \/ \E value \in SearchTerms : SetSearchTerm(value)
    \/ DebounceFires
    \/ \E option \in SortOptions : SetSortBy(option)
    \/ \E option \in FilterOptions : SetFilter(option)
    \/ ViewTick

SpecView == Init /\ [][NextView]_vars

\* the home list: the incremental loads while one search term, one sort
\* key and one filter are switched on and off
InitGate ==
    /\ now = 0
    /\ ServerStarted
    /\ favTable = <<>>
    /\ HomeMounted

NextGate ==
    \/ InitialResolve
    \/ \E value \in {"", "b"} : SetSearchTerm(value)
    \/ DebounceFires
    \/ \E option \in {"default", "price-asc"} : SetSortBy(option)
    \/ \E option \in {"all", "losers"} : SetFilter(option)
    \/ \E isIntersecting \in BOOLEAN : ObserverFires(isIntersecting)
    \/ ClickLoadMore
    \/ LoadMoreResolve
    \/ ViewTick

SpecGate == InitGate /\ [][NextGate]_vars

\* the home list with two loaded pages, the favorite control of the first
\* asset of the second page, and the favorites view; the first asset of
\* the first page may be a favorite from the start
FavoredFrom == {CoinId(perPage + 1)}

NextFavorites ==
    \/ InitialResolve
    \/ ClickLoadMore
    \/ LoadMoreResolve
    \/ \E assetId \in FavoredFrom : ToggleFavorite(assetId)
    \/ ToggleResolve
    \/ FetchData

SpecFavorites == Init /\ [][NextFavorites]_vars

\* the three fetchers serving a sequence of requests; the caches are
\* independent of each other, and a run keeps to the route it started with
FetchRequests ==
    {AssetsRequest(Null, Null), AssetsRequest(Str(<<"3">>), Null),
     DetailRequest("bitcoin"), ChartRequest("bitcoin")}

InitFetch ==
    /\ now = 0
    /\ ServerStarted
    /\ favTable = <<>>
    /\ HomeMounted

NextFetch ==
    \/ Tick
    \/ \E req \in FetchRequests :
          last.route \in {"none", req.route} /\ Arrive(req)
    \/ ServeAssets
    \/ ServeDetail
    \/ ServeChart

SpecFetch == InitFetch /\ [][NextFetch]_vars

\* the raw values of one query parameter
RawChars == {"-", "0", "1", "2", "5", "a"}

RawStrings == UNION {[1..n -> RawChars] : n \in 0..MaxRawLen}

RawParams == {Null} \cup {Str(s) : s \in RawStrings}

FewParams == {Null, Str(<<"0">>), Str(<<"2">>)}

\* one listing request with any raw parameters, served from an empty cache
InitParams ==
    /\ now = 0
    /\ last = NoneServed
    /\ assetsCache = <<>> /\ detailCache = <<>> /\ chartCache = <<>>
    /\ inflight = EmptyBag
    /\ pending \in
        {AssetsRequest(a, b) : a \in RawParams, b \in FewParams}
        \cup {AssetsRequest(a, b) : a \in FewParams, b \in RawParams}
    /\ favTable = <<>>
    /\ HomeMounted

NextParams == ServeAssets

SpecParams == InitParams /\ [][NextParams]_vars

\* the favorites routes serving a sequence of requests
StoreIds == {"bitcoin", "ethereum"}

StoreParams == {Null, Str("")} \cup {Str(id) : id \in StoreIds}

StoreRequests ==
    {FavoritesRequest("GET", Null)}
    \cup {FavoritesRequest(m, a) : m \in {"POST", "DELETE"}, a \in StoreParams}
    \cup {FavoritesRequest("POST", Unparsable)}

InitStore ==
    /\ now = 0
    /\ ServerStarted
    /\ favTable = <<>>
    /\ HomeMounted

NextStore ==
    \/ \E req \in StoreRequests : Arrive(req)
    \/ ServeFavorites

SpecStore == InitStore /\ [][NextStore]_vars

\* the detail route asked for coins whose documents differ in their link
\* arrays; the client that was answered may ask for the same coin again
DetailIds == {"bitcoin", "ethereum", "tether", "solana", "dogecoin"}

InitDetail ==
    /\ now = 0
    /\ pending \in {DetailRequest(id) : id \in DetailIds}
    /\ last = NoneServed
    /\ assetsCache = <<>> /\ detailCache = <<>> /\ chartCache = <<>>
    /\ inflight = EmptyBag
    /\ favTable = <<>>
    /\ HomeMounted

NextDetail ==
    \/ ServeDetail
    \/ \E id \in DetailIds : last.key = id /\ Arrive(DetailRequest(id))

SpecDetail == InitDetail /\ [][NextDetail]_vars

\* the home list with its sentinel staying in view: every notification of
\* the observer reports it intersecting; an observer that is on the
\* sentinel keeps being notified and time passes, every outstanding
\* request resolves (the initial load and the incremental loads are
\* resolvable whenever they are outstanding), while nothing obliges the
\* user to click
NextLive ==
    \/ InitialResolve
    \/ Retry
    \/ ObserverFires(TRUE)
    \/ ClickLoadMore
    \/ LoadMoreResolve
    \/ HomeTick

SpecLive ==
    /\ Init /\ [][NextLive]_vars
    /\ WF_vars(ObserverFires(TRUE))
    /\ WF_vars(HomeTick)
    /\ []<>(~initialReq)
    /\ []<>(moreReq = <<>>)

\* the listing route under requests whose handlers interleave at their
\* await, on a cache that earlier requests have filled close to its limit
PageOfOne(n) == AssetsRequest(Str(DecimalString(n)), Str(<<"1">>))

WarmKeys == MAX_CACHE_ENTRIES - 1

\* the cache after pages 1..n of one asset were requested at time 0
RECURSIVE WarmCache(_)
WarmCache(n) ==
    IF n = 0 THEN <<>>
    ELSE AssetsGET(PageOfOne(n), WarmCache(n - 1), 0,
                   [kind |-> "ok", status |-> 200, market |-> 1,
                    total |-> CatalogSize, latency |-> 0]).cache

\* the oldest key and two keys the cache does not hold yet
CacheRequests ==
    {PageOfOne(1), PageOfOne(WarmKeys + 1), PageOfOne(WarmKeys + 2)}

\* a fetch that succeeds and one the provider refuses
CacheOutcomes ==
    {[kind |-> "ok", status |-> 200, market |-> 1, total |-> CatalogSize,
      latency |-> 0],
     [kind |-> "status", status |-> 429, market |-> 1, total |-> CatalogSize,
      latency |-> 0]}

InitCache ==
    /\ now = 0
    /\ pending = NoRequest /\ last = NoneServed
    /\ assetsCache = WarmCache(WarmKeys)
    /\ detailCache = <<>> /\ chartCache = <<>>
    /\ inflight = EmptyBag
    /\ favTable = <<>>
    /\ HomeMounted

NextCache ==
    \/ Advance({ASSETS_CACHE_DURATION})
    \/ \E req \in CacheRequests : Arrive(req)
    \/ AssetsEnter
    \/ \E out \in CacheOutcomes : AssetsResume(out)

SpecCache == InitCache /\ [][NextCache]_vars

(***************************************************************************)
(* Claims about the pagination parameters (SpecParams)                     *)
(***************************************************************************)
TestInts == (0 - MaxTestInt)..MaxTestInt

\* a raw value that holds no decimal digit at all
NoDigit(param) ==
    \/ ~param.present
    \/ \A i \in 1..Len(param.text) : ~IsDigit(param.text[i])

Rendering == [n \in TestInts |-> DecimalString(n)]

\* the raw value is the decimal rendering of the integer n
Renders(param, n) == param.present /\ param.text = Rendering[n]

ListServed == last.route = "assets"

\* the page and perPage the last listing request was answered for
AnsweredPage ==
    IF last.resp.status = 200 THEN last.resp.page ELSE last.calls[1].page

AnsweredPerPage ==
    IF last.resp.status = 200 THEN last.resp.perPage
    ELSE last.calls[1].per_page

NonPositive(param) == \E n \in TestInts : n <= 0 /\ Renders(param, n)

\* C7 as stated: a zero or negative raw per_page is answered with the
\* default perPage 10, a zero or negative raw page with the default page 1.
C7_NonPositiveGivesDefaults ==
    (ListServed /\ last.resp.status = 200) =>
        /\ NonPositive(last.req.per_page) => last.resp.perPage = 10
        /\ NonPositive(last.req.page) => last.resp.page = 1

\* C7 amended: a zero or negative raw per_page is answered with perPage 1
\* (the lower clamp, not the default 10), a zero or negative raw page with
\* page 1.
C7_NonPositiveGivesOne ==
    (ListServed /\ last.resp.status = 200) =>
        /\ NonPositive(last.req.per_page) => last.resp.perPage = 1
        /\ NonPositive(last.req.page) => last.resp.page = 1

\* a successful listing for a negative per_page was served
C7_Witness ==
    /\ ListServed /\ last.resp.status = 200
    /\ Renders(last.req.per_page, 0 - 2)

(***************************************************************************)
(* Claims about the fetchers and their caches (SpecFetch)                  *)
(***************************************************************************)
\* a step in which a handler serves the pending request
ServeStep == pending # NoRequest /\ pending' = NoRequest

CacheOf(route) ==
    IF route = "assets" THEN assetsCache
    ELSE IF route = "detail" THEN detailCache ELSE chartCache

Window(route) ==
    IF route = "assets" THEN ASSETS_CACHE_DURATION ELSE CACHE_DURATION

Payload(resp) == IF "assets" \in DOMAIN resp THEN resp.assets ELSE resp.data

FetcherRoutes == {"assets", "detail", "chart"}

\* C1: when a fetcher serves a request for the key of the request it served
\* just before, and that one succeeded, the entry of the key holds the
\* payload the first one fetched; inside the freshness window the second
\* request calls no provider and returns that stored payload, and once the
\* window has expired it calls the provider once more.
C1_CacheIdempotence ==
    [][(/\ ServeStep
        /\ pending.route \in FetcherRoutes
        /\ last.route = pending.route
        /\ last'.key = last.key
        /\ last.resp.status = 200)
       => LET c == CacheOf(pending.route)
              e == CacheGet(c, last.key)
          IN  /\ CacheHas(c, last.key)
              /\ e.data = Payload(last.resp)
              /\ now - e.timestamp < Window(pending.route) =>
                    /\ last'.calls = <<>>
                    /\ last'.resp.status = 200
                    /\ Payload(last'.resp) = e.data
              /\ now - e.timestamp >= Window(pending.route) =>
                    Len(last'.calls) = 1]_vars

\* a request was answered from an entry stored earlier and still fresh
C1_Witness ==
    /\ last.route \in FetcherRoutes
    /\ last.calls = <<>> /\ last.resp.status = 200
    /\ CacheHas(CacheOf(last.route), last.key)
    /\ now > CacheGet(CacheOf(last.route), last.key).timestamp

\* C8: in every successful listing response, served from the cache or from
\* the provider, hasMore is true exactly when the number of returned assets
\* equals the echoed perPage; an empty or short page gives hasMore = false.
C8_HasMoreDerived ==
    (ListServed /\ last.resp.status = 200) =>
        /\ last.resp.hasMore <=> (Len(last.resp.assets) = last.resp.perPage)
        /\ Len(last.resp.assets) < last.resp.perPage => ~last.resp.hasMore

\* a short, non-empty page was served from the cache
C8_Witness ==
    /\ ListServed /\ last.resp.status = 200 /\ last.calls = <<>>
    /\ Len(last.resp.assets) > 0
    /\ Len(last.resp.assets) < last.resp.perPage
    /\ ~last.resp.hasMore

Failed(answer) == answer.kind \in {"status", "reject", "badjson"}

\* C9: when the provider call of a fetcher returns a non-success status,
\* rejects or yields a body that fails to parse, the fetcher answers 500
\* with its one generic error, has called the provider exactly once, and
\* leaves its cache as it was.
C9_FailureLeavesCache ==
    [][(ServeStep /\ pending.route \in FetcherRoutes
        /\ Failed(last'.upstream))
       => /\ last'.resp \in {ListError, DetailError, ChartError}
          /\ last'.resp.status = 500
          /\ Len(last'.calls) = 1
          /\ assetsCache' = assetsCache
          /\ detailCache' = detailCache
          /\ chartCache' = chartCache]_vars

\* a failed fetch was answered while the cache held an entry for its key
C9_Witness ==
    /\ last.route \in FetcherRoutes
    /\ Failed(last.upstream) /\ last.resp.status = 500
    /\ CacheHas(CacheOf(last.route), last.key)

(***************************************************************************)
(* Claims about the favorites routes (SpecStore)                           *)
(***************************************************************************)
\* C10: adding X when the table holds a row for X is answered 200 'already
\* in favorites' (never 201) and the table still holds exactly one row for
\* X; removing an X that has no row is answered 200 and leaves the table
\* unchanged.  (A store that fails for another reason is answered 500 and
\* changes nothing.)
C10_AddRemoveIdempotent ==
    [][(ServeStep /\ pending.route = "favorites"
        /\ ~Missing(pending.asset_id))
       => LET X == pending.asset_id.text
              storeOk == last'.upstream.kind = "ok"
          IN  /\ (pending.method = "POST" /\ HasRow(favTable, X)) =>
                    /\ favTable' = favTable
                    /\ Cardinality(RowsOf(favTable', X)) = 1
                    /\ last'.resp.status # 201
                    /\ storeOk => last'.resp.status = 200
              /\ (pending.method = "POST" /\ ~HasRow(favTable, X)
                  /\ storeOk) => last'.resp.status = 201
              /\ (pending.method = "DELETE" /\ ~HasRow(favTable, X)) =>
                    /\ favTable' = favTable
                    /\ storeOk => last'.resp.status = 200]_vars

\* a second add of the same asset was answered 'already in favorites'
C10_Witness ==
    /\ last.route = "favorites" /\ last.req.method = "POST"
    /\ last.resp.status = 200
    /\ Cardinality(RowsOf(favTable, last.req.asset_id.text)) = 1

(***************************************************************************)
(* Claims about the incremental load of the home list (Spec)               *)
(***************************************************************************)
\* C2: at most one incremental-load request of the home list is in flight
\* at any time, whichever of the visibility trigger and the manual control
\* invokes loadMoreAssets and in whatever order; a request is in flight
\* exactly while loadingMore is set.
C2_OneLoadInFlight ==
    /\ Len(moreReq) <= 1
    /\ loadingMore <=> moreReq # <<>>

\* a load is in flight while the sentinel is rendered, so the visibility
\* trigger can fire during it
C2_Witness ==
    /\ Len(moreReq) = 1 /\ loadingMore
    /\ SentinelRendered
    /\ lastLoadTime = clock

\* a step in which an incremental load resolves
LoadMoreResolved == Len(moreReq') < Len(moreReq)

RateLimited == [kind |-> "status", status |-> 429]

HasToast(toasts, type) == \E i \in 1..Len(toasts) : toasts[i].type = type

\* C5: when the provider answers the request behind an incremental load
\* with HTTP 429, the list keeps its assets, page cursor and hasMore and a
\* warning notification, not an error notification, is emitted.
C5_RateLimitWarns ==
    [][(LoadMoreResolved /\ last'.upstream = RateLimited)
       => /\ assets' = assets /\ page' = page /\ hasMore' = hasMore
          /\ HasToast(emitted', "warning")
          /\ ~HasToast(emitted', "error")]_vars

(***************************************************************************)
(* Claims about the favorite toggle of the home list (SpecToggle)          *)
(***************************************************************************)
Outstanding(assetId) ==
    {req \in BagToSet(toggleReqs) : req.assetId = assetId}

OutstandingCount(assetId) ==
    CopiesIn(ToggleRequest(assetId, TRUE), toggleReqs)
    + CopiesIn(ToggleRequest(assetId, FALSE), toggleReqs)

\* a step in which a toggle request for assetId resolves
ToggleResolved(assetId) ==
    \E req \in Outstanding(assetId) :
        toggleReqs' = toggleReqs (-) SetToBag({req})

\* C3: the membership of X in the local favorite ids changes only in a
\* step in which a request for X resolves; a request for X that resolves
\* successfully flips the membership and emits a success notification, one
\* that fails leaves it unchanged and emits an error notification, and the
\* membership is unchanged while a request for X stays outstanding.
C3_FlipOnConfirmation ==
    [][\A X \in Togglable :
        LET was == Contains(favorites, X)
            is == Contains(favorites', X)
        IN  ListRendered =>
            /\ was # is => ToggleResolved(X) /\ HasToast(emitted', "success")
            /\ (ToggleResolved(X) /\ HasToast(emitted', "success")) =>
                    was # is
            /\ (ToggleResolved(X) /\ ~HasToast(emitted', "success")) =>
                    was = is /\ HasToast(emitted', "error")
            /\ (Outstanding(X) # {} /\ ~ToggleResolved(X)) => was = is
      ]_vars

\* C4: while a toggle request for X is outstanding X is the asset marked
\* pending, so two requests for the same asset are never outstanding
\* together, and no asset is pending once every toggle has resolved.
C4_PendingUntilResolved ==
    /\ \A X \in Togglable :
        /\ Outstanding(X) # {} => favoriteLoading = X
        /\ OutstandingCount(X) <= 1
    /\ toggleReqs = EmptyBag => favoriteLoading = NULL

(***************************************************************************)
(* Claims about the favorites routes (SpecStore)                           *)
(***************************************************************************)
\* what listFavorites answers when the store does not fail
Listed(table) == FavoritesGET(table, "ok").resp.favorites

ListedIds(table) == {Listed(table)[i].asset_id : i \in 1..Len(Listed(table))}

\* the rows of the table that are not for assetId, in table order
OtherRows(table, assetId) ==
    LET Other(row) == row.asset_id # assetId IN SelectSeq(table, Other)

\* C11: after an add of X that succeeds the listing contains a row for X,
\* after a remove of X that succeeds the listing contains no row for X, and
\* neither changes the rows of other asset ids.
C11_RoundTrip ==
    [][(ServeStep /\ pending.route = "favorites"
        /\ pending.method \in {"POST", "DELETE"}
        /\ ~Missing(pending.asset_id))
       => LET X == pending.asset_id.text
              succeeded == last'.resp.status \in {200, 201}
          IN  /\ (pending.method = "POST" /\ succeeded) =>
                    X \in ListedIds(favTable')
              /\ (pending.method = "DELETE" /\ succeeded) =>
                    X \notin ListedIds(favTable')
              /\ OtherRows(favTable', X) = OtherRows(favTable, X)]_vars

\* a row was added next to a row of another asset
C11_Witness ==
    /\ last.route = "favorites" /\ last.req.method = "POST"
    /\ last.resp.status = 201
    /\ ListedIds(favTable) = StoreIds
    /\ Listed(favTable)[1].asset_id = last.req.asset_id.text

\* the store reports the uniqueness violation: the insert reaches the
\* store, the store does not fail otherwise and a row for the id exists
UniqueViolated(req, table, sOut) ==
    /\ req.method = "POST" /\ sOut = "ok"
    /\ HasRow(table, req.asset_id.text)

\* the outcome table of the three operations for a request whose body or
\* query carries, or lacks, an asset id
Determined(req, table, sOut) ==
    IF req.method # "GET" /\ Missing(req.asset_id)
    THEN [status |-> 400, ops |-> 0]
    ELSE IF sOut = "error" THEN [status |-> 500, ops |-> 1]
    ELSE IF UniqueViolated(req, table, sOut) THEN [status |-> 200, ops |-> 1]
    ELSE IF req.method = "POST" THEN [status |-> 201, ops |-> 1]
    ELSE [status |-> 200, ops |-> 1]

Outcome(entry) == [status |-> entry.resp.status, ops |-> Len(entry.calls)]

FavoritesStep == ServeStep /\ pending.route = "favorites"

InitialResolved == initialReq /\ ~initialReq'

\* the page-1 asset request of the resolving load succeeded
AssetsSucceeded(entry) == entry.route = "assets" /\ Ok(entry.resp)

FavoritesSucceeded(entry) == Ok(entry.favorites)

\* C13: a resolving initial load or retry has run the page-1 asset request
\* and the favorites request; when both succeeded the collection, hasMore
\* and the favorite ids are set from the two responses, and when either
\* failed the view enters the error state with all three left as they
\* were; the retry action starts the same load again.
C13_InitialAllOrNothing ==
    [][/\ InitialResolved =>
            /\ ~loading'
            /\ "favorites" \in DOMAIN last'
            /\ last'.route = "assets" => last'.req = PageRequest(1)
            /\ IF AssetsSucceeded(last') /\ FavoritesSucceeded(last')
               THEN /\ error' = NULL
                    /\ assets' = last'.resp.assets
                    /\ hasMore' = last'.resp.hasMore
                    /\ favorites' = FavoriteIds(last'.favorites.favorites)
               ELSE /\ error' # NULL
                    /\ assets' = assets /\ hasMore' = hasMore
                    /\ favorites' = favorites
       /\ (error # NULL /\ error' = NULL) => initialReq' /\ loading'
      ]_vars

\* a retry resolved with both requests succeeding after a load in which the
\* asset request had succeeded (its page is answered from the cache) and
\* the favorites request had failed
C13_Witness ==
    /\ ~initialReq /\ ListRendered
    /\ AssetsSucceeded(last) /\ last.req = PageRequest(1)
    /\ last.calls = <<>>
    /\ "favorites" \in DOMAIN last /\ FavoritesSucceeded(last)
    /\ assets # <<>> /\ favorites # <<>>

(***************************************************************************)
(* Claims about a failing incremental load (Spec)                          *)
(***************************************************************************)
\* the incremental load resolving in this step failed for a reason other
\* than a status 429: the fetch was rejected, the status is not a success,
\* or the body carries an error field
LoadMoreFailed(entry) ==
    \/ entry.route = "none"
    \/ ~Ok(entry.resp) /\ entry.resp.status # 429
    \/ "error" \in DOMAIN entry.resp

\* C14: an incremental load that fails for a reason other than 429 leaves
\* the loaded collection, the page cursor and hasMore as they were before
\* the attempt (they do not change while it is outstanding either), and
\* every incremental load that resolves sets loadingMore to false and
\* leaves no request behind.
C14_FailedLoadKeepsList ==
    [][/\ (LoadMoreResolved /\ LoadMoreFailed(last')) =>
            /\ assets' = assets /\ page' = page /\ hasMore' = hasMore
            /\ HasToast(emitted', "error") \/ HasToast(emitted', "warning")
       /\ (moreReq # <<>> /\ ~LoadMoreResolved) =>
            /\ assets' = assets /\ page' = page /\ hasMore' = hasMore
       /\ LoadMoreResolved => ~loadingMore' /\ moreReq' = <<>>
      ]_vars

\* a load-more is outstanding that was started after an earlier one failed
C14_Witness ==
    /\ Len(moreReq) = 1 /\ loadingMore
    /\ ~initialReq /\ ListRendered
    /\ LoadMoreFailed(last)
    /\ page = 1 /\ Len(assets) = perPage /\ hasMore

(***************************************************************************)
(* Claims about the visibility trigger (Spec)                              *)
(***************************************************************************)
\* a step in which a call of loadMoreAssets made by caller starts a request
Invoked(caller) ==
    /\ Len(moreReq') = Len(moreReq) + 1
    /\ moreReq'[Len(moreReq')].caller = caller

\* C15: the visibility trigger calls load-more only for an intersecting
\* entry while hasMore is true and no load is in progress, and only when
\* at least 500 ms have passed since its previous call: the time of the
\* previous call is kept in lastLoadTime, which only a call of the trigger
\* changes, across renders.
C15_TriggerThrottled ==
    [][/\ \A b \in BOOLEAN :
            HandleObserver(b, hasMore, loadingMore, clock, lastLoadTime) =>
                /\ b /\ hasMore /\ ~loadingMore
                /\ clock - lastLoadTime >= 500
       /\ Invoked("observer") =>
            /\ hasMore /\ ~loadingMore
            /\ clock - lastLoadTime >= 500
            /\ lastLoadTime' = clock
       /\ lastLoadTime' # lastLoadTime => Invoked("observer")
       /\ lastLoadTime <= clock
      ]_vars

\* a second call of the trigger is outstanding, a whole interval after the
\* first one
C15_Witness ==
    /\ Len(moreReq) = 1 /\ moreReq[1].caller = "observer"
    /\ lastLoadTime = clock /\ clock >= 2 * minLoadInterval
    /\ page = 2

(***************************************************************************)
(* Claims about the load gate of the derived view (SpecGate)               *)
(***************************************************************************)
\* C16: in a state where the applied search term is non-empty, or the
\* filter is not 'all', or the sort is not 'default', no step starts an
\* incremental-load request, whether the visibility trigger or the manual
\* control is operated.
C16_NoLoadOutsideBaseline ==
    [][~Baseline => \A caller \in {"observer", "button"} : ~Invoked(caller)
      ]_vars

\* after a second page was loaded, the view is narrowed while more pages
\* exist, no load is in progress and the throttle interval has passed
C16_Witness ==
    /\ ListRendered /\ page = 2 /\ hasMore /\ ~loadingMore
    /\ clock - lastLoadTime >= minLoadInterval
    /\ debouncedSearchTerm # "" /\ filter # "all" /\ sortBy # "default"

(***************************************************************************)
(* Claims about the debounced search term (SpecView)                       *)
(***************************************************************************)
\* C17: the debounced value changes only to the raw value and only when
\* the timeout set at the last change of the raw value is due, that is
\* after the raw value stood for the full delay of 300 ms; every change of
\* the raw value replaces the pending timeout by one for the new value, so
\* a replaced value is not applied; when no timeout is pending the
\* debounced value is the raw value, and a pending timeout is never
\* overdue; the debounced value is the raw value from the start.
C17_Debounce ==
    [][/\ debouncedSearchTerm' # debouncedSearchTerm =>
            /\ debouncedSearchTerm' = searchTerm /\ searchTerm' = searchTerm
            /\ searchTimer # NoTimer /\ clock >= searchTimer
       /\ searchTerm' # searchTerm =>
            /\ searchTimer' = clock + 300
            /\ debouncedSearchTerm' = debouncedSearchTerm
       /\ (searchTerm' = searchTerm /\ searchTimer # NoTimer) =>
            searchTimer' \in {searchTimer, NoTimer}
       /\ searchTimer = NoTimer => debouncedSearchTerm = searchTerm
       /\ searchTimer # NoTimer => clock <= searchTimer
       /\ (loading /\ initialReq /\ searchTerm = "") =>
            debouncedSearchTerm = ""
      ]_vars

\* one typed term has been applied and a later one is waiting for its
\* delay to pass
C17_Witness ==
    /\ debouncedSearchTerm = "eth" /\ searchTerm = "ETH"
    /\ searchTimer # NoTimer /\ clock < searchTimer
    /\ clock > minLoadInterval + debounceDelay

(***************************************************************************)
(* Claims about the derived view (SpecView)                                *)
(***************************************************************************)
Shown(view, asset) == \E j \in 1..Len(view) : view[j] = asset

\* the assets a search for the typed terms is to keep, by name
NamedBy(searchValue) ==
    CASE searchValue = "" -> {"Bitcoin", "Ethereum", "Tether"}
      [] searchValue \in {"eth", "ETH"} -> {"Ethereum", "Tether"}
      [] searchValue = "b" -> {"Bitcoin"}

ToKeep(asset, searchValue, filterOption) ==
    /\ asset.name \in NamedBy(searchValue)
    /\ \/ filterOption = "all"
       \/ filterOption = "gainers" /\ asset.price_change_percentage_24h >= 0
       \/ filterOption = "losers" /\ asset.price_change_percentage_24h < 0

\* the loaded assets that are to be kept, in the order of the collection
KeptInOrder ==
    LET Kept(asset) == ToKeep(asset, debouncedSearchTerm, filter)
    IN  SelectSeq(assets, Kept)

\* C18: the derived view holds exactly the loaded assets whose name or
\* symbol contains the applied term, compared case-insensitively (all of
\* them for the empty term), and that pass the filter: all assets for
\* 'all', 24h change >= 0 for 'gainers', < 0 for 'losers'; every loaded
\* asset, one with change 0 included, is in exactly one of the gainers and
\* the losers view.
C18_ViewKeepsMatches ==
    LET view == filteredAssets
        gainers == FilteredAssets(assets, "", "gainers", "default")
        losers == FilteredAssets(assets, "", "losers", "default")
    IN  /\ \A i \in 1..Len(assets) :
            Shown(view, assets[i])
                <=> ToKeep(assets[i], debouncedSearchTerm, filter)
        /\ Len(view) = Len(KeptInOrder)
        /\ FilteredAssets(assets, "ETH", filter, sortBy)
            = FilteredAssets(assets, "eth", filter, sortBy)
        /\ \A i \in 1..Len(assets) :
            /\ Shown(gainers, assets[i]) <=> ~Shown(losers, assets[i])
            /\ assets[i].price_change_percentage_24h = 0 =>
                    Shown(gainers, assets[i])

\* an upper-case term and the gainers filter keep an asset whose change is
\* exactly 0 and drop others for the term and for the filter
C18_Witness ==
    /\ debouncedSearchTerm = "ETH" /\ filter = "gainers"
    /\ \E j \in 1..Len(filteredAssets) :
        filteredAssets[j].price_change_percentage_24h = 0
    /\ \E i \in 1..Len(assets) :
        /\ assets[i].name = "Bitcoin"
        /\ ~Shown(filteredAssets, assets[i])
    /\ \E i \in 1..Len(assets) :
        /\ assets[i].name = "Tether"
        /\ assets[i].price_change_percentage_24h < 0
        /\ ~Shown(filteredAssets, assets[i])

SortKey(asset) ==
    IF sortBy \in {"price-asc", "price-desc"}
    THEN asset.current_price ELSE asset.price_change_percentage_24h

\* C19: for the four sort keys the derived view is a permutation of the
\* searched and filtered assets in ascending, respectively descending,
\* order of price or 24h change; for 'default' it is those assets in the
\* order of the loaded collection, which is the provider's order and which
\* no selection of a sort key changes.
C19_ViewSorted ==
    /\ [](LET view == filteredAssets
              kept == KeptInOrder
          IN  /\ \A i \in 1..Len(kept) : Shown(view, kept[i])
              /\ Len(view) = Len(kept)
              /\ \A i, j \in 1..Len(view) :
                    i < j =>
                        /\ sortBy \in {"price-asc", "change-asc"} =>
                            SortKey(view[i]) <= SortKey(view[j])
                        /\ sortBy \in {"price-desc", "change-desc"} =>
                            SortKey(view[i]) >= SortKey(view[j])
              /\ sortBy = "default" => view = kept
              /\ \A i \in 1..Len(assets) : assets[i].id = CoinId(i))
    /\ [][sortBy' # sortBy => assets' = assets]_vars

\* a view sorted by 24h change, two of its assets having the same change,
\* that is not in the order of the loaded collection
C19_Witness ==
    /\ sortBy = "change-asc" /\ Len(filteredAssets) >= 3
    /\ filteredAssets # KeptInOrder
    /\ \E i \in 1..(Len(filteredAssets) - 1) :
        SortKey(filteredAssets[i]) = SortKey(filteredAssets[i + 1])

(***************************************************************************)
(* Claims about the favorites view (SpecFavorites)                         *)
(***************************************************************************)
\* a step in which the favorites view finishes loading without error
FavoritesLoaded ==
    /\ favPage' # favPage
    /\ ~favPage'.loading /\ favPage'.error = NULL

\* C20: when the favorites view has loaded without error it displays
\* every asset that was favorited from the home list (its id is among the
\* home list's favorite ids and the table holds its row), on whichever
\* loaded page of the home list the asset appeared, and it shows one card
\* per row of the favorites table.
C20_FavoritesViewComplete ==
    [][FavoritesLoaded =>
        /\ \A i \in 1..Len(favorites) :
            HasRow(favTable, favorites[i]) =>
                \E j \in 1..Len(favPage'.assets) :
                    favPage'.assets[j].id = favorites[i]
        /\ Len(favPage'.assets) = Len(favTable)
      ]_vars

(***************************************************************************)
(* Claims about the listing cache under interleaved handlers (SpecCache)   *)
(***************************************************************************)
\* a step in which a listing handler completes
ListingCompleted ==
    last' # last \/ BagCardinality(inflight') < BagCardinality(inflight)

\* C21: after every completed listing request the listing cache holds at
\* most 10 entries.
C21_CacheBounded ==
    /\ [](Len(assetsCache) <= MAX_CACHE_ENTRIES)
    /\ [][ListingCompleted => Len(assetsCache') <= MAX_CACHE_ENTRIES]_vars

\* the cache is full and the handler that ran last stored a new key, which
\* displaced the key of page 1
C21_Witness ==
    /\ Len(assetsCache) = MAX_CACHE_ENTRIES
    /\ last.calls # <<>> /\ last.resp.status = 200
    /\ ~CacheHas(assetsCache, CacheKey(1, 1))
    /\ CacheHas(assetsCache, last.key)

\* a step in which a listing handler reaches its cache check and finds no
\* valid entry for its key
ListingMissed ==
    /\ pending.route = "assets" /\ pending' = NoRequest
    /\ ~IsValid(assetsCache, Suspended(pending).key, now,
                ASSETS_CACHE_DURATION)

\* C22: a listing handler that observes a miss calls the provider and is
\* suspended whether or not another handler for the same key is already
\* suspended on its own provider call, so that two provider calls can be
\* outstanding for one key within a single freshness window.
C22_MissesNotCoalesced ==
    [][ListingMissed =>
        CopiesIn(Suspended(pending), inflight')
            = CopiesIn(Suspended(pending), inflight) + 1
      ]_vars

\* two handlers for one key are suspended on their provider calls, both
\* made since the server started less than a freshness window ago
C22_Witness ==
    /\ now < ASSETS_CACHE_DURATION
    /\ \E h \in BagToSet(inflight) :
        /\ CopiesIn(h, inflight) >= 2
        /\ ~IsValid(assetsCache, h.key, now, ASSETS_CACHE_DURATION)

(***************************************************************************)
(* Claims about the page cursor of the home list (Spec)                    *)
(***************************************************************************)
\* the initial load has succeeded
InitiallyLoaded == ~loading /\ error = NULL

\* the response the listing route gives for page p of the home list: the
\* route stores every page it answers with and the entries stay valid
ReceivedPage(p) ==
    IF CacheHas(assetsCache, CacheKey(p, perPage))
    THEN CacheGet(assetsCache, CacheKey(p, perPage)).data ELSE <<>>

RECURSIVE ReceivedUpTo(_)
ReceivedUpTo(p) ==
    IF p = 0 THEN <<>> ELSE ReceivedUpTo(p - 1) \o ReceivedPage(p)

\* a step in which an incremental load resolves with a non-empty page
LoadedNonEmpty ==
    /\ LoadMoreResolved
    /\ last'.route = "assets" /\ Ok(last'.resp)
    /\ "error" \notin DOMAIN last'.resp
    /\ last'.resp.assets # <<>>

\* C23: once the initial load has succeeded the loaded collection is the
\* concatenation, in page order, of the responses received for pages 1 up
\* to the page cursor, each page once; the cursor advances by exactly 1 on
\* each successful non-empty incremental load and never otherwise.
C23_PagesInOrder ==
    /\ [](InitiallyLoaded =>
            /\ assets = ReceivedUpTo(page)
            /\ \A p \in 1..page : ReceivedPage(p) # <<>>)
    /\ [][IF LoadedNonEmpty
           THEN /\ page' = page + 1
                /\ assets' = assets \o last'.resp.assets
           ELSE page' = page
        ]_vars

\* three pages are loaded, the third one shorter than a page
C23_Witness ==
    /\ InitiallyLoaded /\ page = 3
    /\ Len(assets) = CatalogSize /\ ~hasMore
    /\ moreReq = <<>>

(***************************************************************************)
(* Claims about the visibility trigger (SpecLive)                          *)
(***************************************************************************)
\* the sentinel is rendered after a successful initial load, no load is in
\* flight and the throttle interval can still elapse on the browser clock
AutoLoadReady ==
    /\ InitiallyLoaded /\ SentinelRendered
    /\ ~loadingMore /\ moreReq = <<>>
    /\ \E t \in HomeClockPoints : t - lastLoadTime >= minLoadInterval

\* C24: from a state after a successful initial load in which the
\* sentinel is rendered and no load is in flight, with the sentinel
\* staying visible, an incremental-load request is eventually started by
\* the visibility trigger, unless a manual click starts one first.
C24_AutoLoadLive == AutoLoadReady ~> (moreReq # <<>>)

(***************************************************************************)
(* Claims about the favorite ids of the home list (SpecAgree)              *)
(***************************************************************************)
\* C25: after a successful initial load, whenever no favorite-toggle
\* request is outstanding, an asset id is among the local favorite ids
\* exactly when the favorites table holds a row for it.
C25_LocalAgreesWithTable ==
    (InitiallyLoaded /\ toggleReqs = EmptyBag) =>
        \A id \in Togglable \cup {CoinId(1)} :
            Contains(favorites, id) <=> HasRow(favTable, id)

(***************************************************************************)
(* Claims about the favorite ids under atomic resolutions (SpecToggle)     *)
(***************************************************************************)
\* C26: the local favorite-id list contains each asset id at most once.
C26_FavoriteIdsDistinct ==
    \A i \in 1..Len(favorites), j \in 1..Len(favorites) :
        favorites[i] = favorites[j] => i = j

(***************************************************************************)
(* Claims about the age of what the fetchers serve (SpecFetch)             *)
(***************************************************************************)
\* the entry behind the response of the handler that ran last
ServedEntry == CacheGet(CacheOf(last.route), last.key)

\* the cache of a route after the step
CacheAfter(route) ==
    IF route = "assets" THEN assetsCache'
    ELSE IF route = "detail" THEN detailCache' ELSE chartCache'

\* C27: every successful response of the list, detail and history
\* fetchers carries the payload of an entry that was stored strictly less
\* than one freshness window before the response is produced (an entry
\* whose age equals the window is not served); serving a cache hit leaves
\* the stored entries, and so their timestamps, as they were.
C27_BoundedStaleness ==
    [][(ServeStep /\ pending.route \in FetcherRoutes
        /\ last'.resp.status = 200)
       => LET c == CacheAfter(pending.route)
              e == CacheGet(c, last'.key)
          IN  /\ CacheHas(c, last'.key)
              /\ e.data = Payload(last'.resp)
              /\ e.timestamp <= now'
              /\ now' - e.timestamp < Window(pending.route)
              /\ last'.calls = <<>> =>
                    /\ assetsCache' = assetsCache
                    /\ detailCache' = detailCache
                    /\ chartCache' = chartCache
      ]_vars

\* a request was answered from an entry one instant before its expiry
C27_Witness ==
    /\ last.route \in FetcherRoutes
    /\ last.calls = <<>> /\ last.resp.status = 200
    /\ CacheHas(CacheOf(last.route), last.key)
    /\ now - ServedEntry.timestamp = Window(last.route) - 1

(***************************************************************************)
(* Claims about the end of paging (Spec)                                   *)
(***************************************************************************)
\* a step in which an incremental load resolves successfully
LoadSucceeded ==
    /\ LoadMoreResolved
    /\ last'.route = "assets" /\ Ok(last'.resp)
    /\ "error" \notin DOMAIN last'.resp

PagingStep ==
    /\ (LoadSucceeded /\ Len(last'.resp.assets) < perPage) => ~hasMore'
    /\ (LoadSucceeded /\ last'.resp.assets = <<>>) =>
            (page' = page /\ assets' = assets)
    /\ (InitiallyLoaded /\ ~hasMore) => (~hasMore' /\ moreReq' = moreReq)

\* C28: paging terminates against a catalogue of at most CatalogSize
\* assets.  While hasMore holds after the initial load every loaded page
\* was full, so the loaded pages are bounded by the catalogue; a
\* successful load that returns a short page sets hasMore to false, and
\* one that returns an empty page does so without advancing the cursor;
\* once hasMore is false it stays false and load-more starts no request.
C28_PagingTerminates ==
    /\ []((InitiallyLoaded /\ hasMore) =>
            /\ Len(assets) = page * perPage
            /\ Len(assets) <= CatalogSize)
    /\ [][PagingStep]_vars

\* the catalogue ended on a page boundary: the load after the last full
\* page returned no assets and paging stopped with the cursor on page 2
C28_Witness ==
    /\ InitiallyLoaded /\ ~hasMore
    /\ page = 2 /\ Len(assets) = 2 * perPage
    /\ HasToast(emitted, "info")

(***************************************************************************)
(* Claims about the eviction order of the listing cache (SpecCache)        *)
(***************************************************************************)
\* the keys of a cache, in the order the Map iterates them
KeysOf(c) == [i \in 1..Len(c) |-> c[i].key]

\* a step in which a listing handler stores the page it fetched
StoreStep ==
    /\ BagCardinality(inflight') < BagCardinality(inflight)
    /\ last'.calls # <<>> /\ last'.resp.status = 200

\* C29: a store of a key the cache already holds, also after the entry's
\* expiry, leaves the order of the keys as it was; a store of a new key
\* appends it, and when that brings the cache above 10 entries exactly one
\* entry is removed, the first in insertion order, never the one just
\* written.
C29_EvictsOldestInserted ==
    [][StoreStep =>
        LET k == last'.key
            keys == KeysOf(assetsCache)
        IN  /\ CacheHas(assetsCache', k)
            /\ CacheGet(assetsCache', k).data = last'.resp.assets
            /\ KeysOf(assetsCache') =
                    IF CacheHas(assetsCache, k) THEN keys
                    ELSE IF Len(assetsCache) < MAX_CACHE_ENTRIES
                    THEN Append(keys, k)
                    ELSE Append(Tail(keys), k)
            /\ \A i \in 1..Len(assetsCache') :
                    assetsCache'[i].key # k =>
                        \E j \in 1..Len(assetsCache) :
                            assetsCache[j] = assetsCache'[i]
      ]_vars

\* both new keys were stored into the full cache: the key of page 1 went
\* first and the key stored last is at the end
C29_Witness ==
    /\ Len(assetsCache) = MAX_CACHE_ENTRIES
    /\ last.calls # <<>> /\ last.resp.status = 200
    /\ assetsCache[MAX_CACHE_ENTRIES].key = last.key
    /\ assetsCache[1].key = CacheKey(3, 1)
    /\ CacheHas(assetsCache, CacheKey(WarmKeys + 1, 1))
    /\ CacheHas(assetsCache, CacheKey(WarmKeys + 2, 1))

(***************************************************************************)
(* Claims about the links of the asset detail (SpecDetail)                 *)
(***************************************************************************)
\* the first non-empty string of an array, or the empty string
FirstNonEmpty(arr) ==
    IF \E i \in 1..Len(arr) : arr[i] # ""
    THEN arr[CHOOSE i \in 1..Len(arr) :
                /\ arr[i] # ""
                /\ \A j \in 1..(i - 1) : arr[j] = ""]
    ELSE ""

\* C30: in the detail a handler has fetched and transformed, homepage
\* and blockchain_site are each the first non-empty string of the
\* corresponding link array of the provider's document, and the empty
\* string when the array is absent or has no non-empty entry.
C30_FirstNonEmptyLink ==
    (last.route = "detail" /\ last.resp.status = 200) =>
        LET doc == ProviderDetail(last.key, 1)
        IN  /\ last.resp.data.homepage
                    = FirstNonEmpty(LinkArray(doc, "homepage"))
            /\ last.resp.data.blockchain_site
                    = FirstNonEmpty(LinkArray(doc, "blockchain_site"))

====
